---- MODULE Spec2Model ----
(***************************************************************************)
(* Model of the chat page (ProjectChatPage): the React state of the page,  *)
(* the handleSendMessage handler with its optimistic append, its           *)
(* reconciliation and its rollback, and the loadChat effect.  The remote   *)
(* collaborator is modelled by the message list it keeps per chat and the  *)
(* durable identifiers it hands out.                                       *)
(*                                                                         *)
(* Every await of the source is a suspension point: the code before it and *)
(* the code after it are separate actions, and the actions of different    *)
(* calls interleave freely.  React applies functional state updaters in    *)
(* the order they were queued, so each setState is applied where it is     *)
(* called.                                                                 *)
(*                                                                         *)
(* The project page (ProjectPage) is the second part: its data state, the  *)
(* loadProjectData effect, the polling effect with its interval and the    *)
(* tick callbacks it starts, handleUrlAdd, handleDraftSettings and         *)
(* handlePublishSettings.  The two pages are separate components: the      *)
(* specifications of one page leave the variables of the other alone.      *)
(***************************************************************************)
EXTENDS Integers, Sequences, FiniteSets, TLC

\* ------------------------------------------------------------------ bounds
MaxSends == 2
MaxLoads == 2
MaxClock == 1

Calls == 1..MaxSends
Loads == 1..MaxLoads
ChatIds == {"c1", "c2"}
Contents == {"hi"}

NoUser == "null"
NoChat == [id |-> "null", messages |-> << >>]
NoMsg == [id |-> <<"none", 0>>, chat_id |-> "null", role |-> "none", content |-> ""]
NoError == "null"

Times == 0..MaxClock

\* Bounds of the project page.
MaxPolls == 2
MaxUrls == 1
MaxPublishes == 1

Polls == 1..MaxPolls
Urls == 1..MaxUrls
Publishes == 1..MaxPublishes

\* Bounds of the document and chat operations of the project page, and of
\* the projects page.
MaxFiles == 2
MaxDeletes == 1
MaxCreates == 1
MaxItems == 3
MaxProjectLoads == 2

Files == 1..MaxFiles
Deletes == 1..MaxDeletes
Creates == 1..MaxCreates
Items == 1..MaxItems
ProjectLoads == 1..MaxProjectLoads
SettingKeys == {"k1", "k2"}
SettingValues == {0, 1}
\* settings: null; a value with no fields.
NoSettings == << >>
NoProject == "null"

VARIABLES
    userId,             \* useAuth().userId, NoUser when absent
    chatId,             \* the chatId route parameter
    currentChatData,    \* useState<ChatWithMessages | null>
    isLoadingChatData,  \* useState(true)
    sendMessageError,   \* useState<string | null>
    isMessageSending,   \* useState(false)
    clock,              \* the reading Date.now() returns
    server,             \* the remote collaborator: chat id -> its messages
    nextId,             \* the next durable identifier the server assigns
    send,               \* the handleSendMessage calls, by call number
    load,               \* the loadChat calls, by call number
    \* ---- the project page
    mounted,            \* ProjectPage is mounted
    data,               \* useState<ProjectData>
    loading,            \* useState(true)
    error,              \* useState<string | null>
    warned,             \* console.warn("No existing settings found to update") was called
    timers,             \* the number of intervals set by setInterval and not cleared
    poll,               \* the interval callbacks started, by tick number
    projectLoad,        \* the loadProjectData calls, by call number
    urlAdd,             \* the handleUrlAdd calls, by call number
    publish,            \* the handlePublishSettings calls, by call number
    srvDocs,            \* the remote collaborator: the project's documents
    srvSettings,        \* the remote collaborator: the project's settings
    nextDoc,            \* the next document identifier the server assigns
    upload,             \* the handleDocumentUpload call
    docDelete,          \* the handleDocumentDelete calls, by call number
    chatCreate,         \* the handleCreateNewChat calls, by call number
    chatDelete,         \* the handleDeleteChat calls, by call number
    isCreatingChat,     \* useState(false)
    srvChats,           \* the remote collaborator: the project's chats
    nextChat,           \* the next chat identifier the server assigns
    \* ---- the projects page (DashboardPage)
    userProjectsList,   \* useState<Project[]>
    errorMessage,       \* useState<string | null>
    removeCall,         \* the removeProject calls, by call number
    srvProjects,        \* the remote collaborator: the user's projects
    isLoadingProjects,  \* useState(false)
    isCreatingProject,  \* useState(false)
    showCreateModal,    \* useState(false)
    listLoad,           \* the loadUserProjects calls, by call number
    createCall,         \* the createNewProject calls, by call number
    nextProject,        \* the next project identifier the server assigns
    projectId           \* useParams().id of the project page

chatVars == <<chatId, currentChatData, isLoadingChatData, sendMessageError,
              isMessageSending, clock, server, nextId, send, load>>

projectVars == <<mounted, data, loading, error, warned, timers, poll, projectLoad,
                 urlAdd, publish, srvDocs, srvSettings, nextDoc>>

opsVars == <<upload, docDelete, chatCreate, chatDelete, isCreatingChat, srvChats,
             nextChat>>

listVars == <<isLoadingProjects, isCreatingProject, showCreateModal, listLoad,
              createCall, nextProject>>

dashboardVars == <<userProjectsList, errorMessage, removeCall, srvProjects, listVars>>

routeVars == <<projectId>>

vars == <<userId, chatVars, projectVars, opsVars, dashboardVars, routeVars>>

page == <<currentChatData, isLoadingChatData, sendMessageError, isMessageSending>>

\* ------------------------------------------------------------ identifiers
\* `temp-${Date.now()}`: the prefix and the clock reading.
TempId(t) == <<"temp-", t>>
\* An identifier assigned by the remote collaborator.
DurableId(n) == <<"msg-", n>>
\* msg.id.startsWith("temp-")
StartsWithTemp(id) == id[1] = "temp-"

\* ------------------------------------------------------- store operations
\* The optimistic user message of handleSendMessage.
OptimisticUserMessage(prev, content, now) ==
    [id |-> TempId(now), chat_id |-> prev.id, role |-> "user", content |-> content]

\* setCurrentChatData(prev => ({...prev, messages: [...prev.messages, msg]}))
OptimisticAppend(prev, msg) ==
    IF prev = NoChat THEN prev
    ELSE [prev EXCEPT !.messages = Append(@, msg)]

ReconcileKeepTemp(prev, tempId, userMessage, aiResponse) ==
    IF prev = NoChat THEN prev
    ELSE [prev EXCEPT !.messages = @ \o <<userMessage, aiResponse>>]

ReconcileReplyFirst(prev, tempId, userMessage, aiResponse) ==
    IF prev = NoChat THEN prev
    ELSE [prev EXCEPT !.messages =
            SelectSeq(@, LAMBDA m : m.id # tempId) \o <<aiResponse, userMessage>>]

\* The success updater: drop the optimistic message, append the server's pair.
Reconcile(prev, tempId, userMessage, aiResponse) ==
    IF prev = NoChat THEN prev
    ELSE [prev EXCEPT !.messages =
            SelectSeq(@, LAMBDA m : m.id # tempId) \o <<userMessage, aiResponse>>]

RollbackNothing(prev) == prev

\* The catch updater: drop every message whose id starts with "temp-".
Rollback(prev) ==
    IF prev = NoChat THEN prev
    ELSE [prev EXCEPT !.messages = SelectSeq(@, LAMBDA m : ~StartsWithTemp(m.id))]

PreconditionIgnoresUser(prev, uid) == prev = NoChat

\* if (!currentChatData || !userId)
PreconditionFails(prev, uid) == prev = NoChat \/ uid = NoUser

\* The page renders ChatInterface (and so offers onSendMessage) only when the
\* chat is loaded and no load is running.
ChatInterfaceRendered == ~isLoadingChatData /\ currentChatData # NoChat

\* ------------------------------------------------------------------ calls
IdleSend == [pc |-> "idle", temp |-> NoMsg, chat |-> "null", content |-> "",
             out |-> "none", resp |-> << >>, posts |-> 0, before |-> NoChat]
IdleLoad == [pc |-> "idle", chat |-> "null", data |-> NoChat]

\* A settled call keeps only its outcome.
SettledSend(out) == [IdleSend EXCEPT !.pc = "done", !.out = out]
SettledLoad == [IdleLoad EXCEPT !.pc = "done"]

\* The next unused call number: calls are numbered in the order they start.
NextSend(p) == send[p].pc = "idle" /\ \A q \in Calls : q < p => send[q].pc # "idle"
NextLoad(l) == load[l].pc = "idle" /\ \A k \in Loads : k < l => load[k].pc # "idle"

\* loadChat up to its first await: setIsLoadingChatData(true).
StartedLoad(c) == [pc |-> "token", chat |-> c, data |-> NoChat]

\* A document of the knowledge base; "" stands for an absent processing_status.
Doc(n, status) == [id |-> n, processing_status |-> status]

InitialData == [project |-> NoProject, chats |-> << >>, documents |-> << >>,
                settings |-> NoSettings]

Settings == [SettingKeys -> SettingValues]
\* Partial<ProjectSettings>: a value for some of the fields.
Partials == UNION {[K -> SettingValues] : K \in SUBSET SettingKeys}

\* id: the projectId of the closure of the interval that fired.
\* cancelled: where the callback was when the cleanup cleared its interval.
IdlePoll == [pc |-> "idle", id |-> NoProject, docs |-> << >>, cancelled |-> "no"]
\* A callback that returned; one whose catch ran is remembered as "failed".
SettledPoll == [IdlePoll EXCEPT !.pc = "done"]
FailedPoll == [IdlePoll EXCEPT !.pc = "failed"]
\* A loadProjectData call: the projectId of its closure, the bundle the server
\* answered with and the GETs among the four that failed.
Fetches == {"project", "chats", "documents", "settings"}
IdleProjectLoad ==
    [pc |-> "idle", id |-> NoProject, data |-> InitialData, failed |-> {}, out |-> "none"]
StartedProjectLoad(p) == [IdleProjectLoad EXCEPT !.pc = "token", !.id = p]
SettledProjectLoad(p, out) == [IdleProjectLoad EXCEPT !.pc = "done", !.id = p, !.out = out]
IdleUrlAdd == [pc |-> "idle", doc |-> Doc(0, "")]
IdlePublish == [pc |-> "idle", sent |-> NoSettings, out |-> "none"]
SettledPublish(out) == [IdlePublish EXCEPT !.pc = "done", !.out = out]

\* The documents the server may hold when the page is opened.
InitialDocs == {<< >>, <<Doc(1, "processing")>>, <<Doc(1, "completed")>>, <<Doc(1, "")>>}

\* The state of the project page after its first render and effects; the
\* component function has run useState and the two effects.
ProjectPageState(isMounted, docs, settings) ==
    /\ mounted = isMounted
    /\ data = InitialData
    /\ loading = TRUE
    /\ error = NoError
    /\ warned = FALSE
    /\ timers = 0
    /\ poll = [k \in Polls |-> IdlePoll]
    /\ projectId = "p1"
    /\ projectLoad = [l \in ProjectLoads |->
                        IF l = 1 /\ isMounted /\ userId # NoUser
                        THEN StartedProjectLoad("p1")
                        ELSE IdleProjectLoad]
    /\ urlAdd = [j \in Urls |-> IdleUrlAdd]
    /\ publish = [q \in Publishes |-> IdlePublish]
    /\ srvDocs = docs
    /\ srvSettings = settings
    /\ nextDoc = Len(docs) + 1

\* A file of an upload: the requests issued for it so far, in order, the
\* ones that succeeded, and whether its pipeline has ended.  A selected file
\* has no request yet; files.map issues the request for its presigned URL.
SelectedFile == [sent |-> << >>, oks |-> {}, ended |-> FALSE]
StartedFile == [sent |-> <<"presign">>, oks |-> {}, ended |-> FALSE]

IdleUpload == [pc |-> "idle", files |-> << >>, newly |-> << >>, toast |-> "none"]
IdleDelete == [pc |-> "idle", id |-> 0, out |-> "none", toast |-> "none"]
IdleCreate == [pc |-> "idle", chat |-> 0, toast |-> "none"]

\* The document and chat operations of the project page before any call,
\* with the chats the server holds.
ProjectOpsIdle(chats) ==
    /\ upload = IdleUpload
    /\ docDelete = [d \in Deletes |-> IdleDelete]
    /\ chatCreate = [c \in Creates |-> IdleCreate]
    /\ chatDelete = [d \in Deletes |-> IdleDelete]
    /\ isCreatingChat = FALSE
    /\ srvChats = chats
    /\ nextChat = Len(chats) + 1

\* A loadUserProjects call: the list it received and the createNewProject
\* call that awaits it (0 for the call of the mount effect).
ListLoads == 1..(MaxCreates + 1)
IdleListLoad == [pc |-> "idle", by |-> 0, out |-> "none", list |-> << >>]
IdleProjectCreate == [pc |-> "idle", out |-> "none", toast |-> "none"]

\* The projects page is not on screen.
DashboardIdle ==
    /\ userProjectsList = << >>
    /\ errorMessage = NoError
    /\ removeCall = [d \in Deletes |-> IdleDelete]
    /\ srvProjects = << >>
    /\ isLoadingProjects = FALSE
    /\ isCreatingProject = FALSE
    /\ showCreateModal = FALSE
    /\ listLoad = [n \in ListLoads |-> IdleListLoad]
    /\ createCall = [c \in Creates |-> IdleProjectCreate]
    /\ nextProject = 1


Init ==
    /\ userId \in {NoUser, "u1"}
    /\ chatId = "c1"
    /\ currentChatData = NoChat
    /\ isLoadingChatData = TRUE
    /\ sendMessageError = NoError
    /\ isMessageSending = FALSE
    /\ clock = 0
    /\ server = [c \in ChatIds |-> << >>]
    /\ nextId = 1
    /\ send = [p \in Calls |-> IdleSend]
    \* The effect runs once after the first render.
    /\ load = [l \in Loads |->
                 IF l = 1 /\ userId # NoUser THEN StartedLoad(chatId) ELSE IdleLoad]
    \* The project page is not on screen.
    /\ ProjectPageState(FALSE, << >>, NoSettings)
    /\ ProjectOpsIdle(<< >>)
    /\ DashboardIdle

\* ------------------------------------------------------------ environment
\* useEffect(..., [userId, chatId]): the effect body up to loadChat's first await.
RunEffect(uid, cid) ==
    IF uid = NoUser
    THEN UNCHANGED <<isLoadingChatData, load>>
    ELSE \E l \in Loads :
            /\ NextLoad(l)
            /\ isLoadingChatData' = TRUE
            /\ load' = [load EXCEPT ![l] = StartedLoad(cid)]

ChangeUserId(u) ==
    /\ u # userId
    /\ userId' = u
    /\ RunEffect(u, chatId)
    /\ UNCHANGED <<projectVars, opsVars, dashboardVars, routeVars>>
    /\ UNCHANGED <<chatId, currentChatData, sendMessageError, isMessageSending,
                   clock, server, nextId, send>>

ChangeChatId(c) ==
    /\ c # chatId
    /\ chatId' = c
    /\ RunEffect(userId, c)
    /\ UNCHANGED <<projectVars, opsVars, dashboardVars, routeVars>>
    /\ UNCHANGED <<userId, currentChatData, sendMessageError, isMessageSending,
                   clock, server, nextId, send>>

\* --------------------------------------------------------------- loadChat
\* getToken() resolved and the GET has reached the server, which answers with
\* the chat as it is now.
LoadRequest(l) ==
    /\ load[l].pc = "token"
    /\ load' = [load EXCEPT ![l].pc = "inflight",
                            ![l].data = [id |-> load[l].chat,
                                         messages |-> server[load[l].chat]]]
    /\ UNCHANGED <<projectVars, opsVars, dashboardVars, routeVars>>
    /\ UNCHANGED <<userId, chatId, page, clock, server, nextId, send>>

\* setCurrentChatData(chatData); finally setIsLoadingChatData(false)
LoadSuccess(l) ==
    /\ load[l].pc = "inflight"
    /\ currentChatData' = load[l].data
    /\ isLoadingChatData' = FALSE
    /\ load' = [load EXCEPT ![l] = SettledLoad]
    /\ UNCHANGED <<projectVars, opsVars, dashboardVars, routeVars>>
    /\ UNCHANGED <<userId, chatId, sendMessageError, isMessageSending, clock,
                   server, nextId, send>>

\* getToken() or apiClient.get threw, before or after the request reached the
\* server.  catch: toast only; finally setIsLoadingChatData(false)
LoadFailure(l) ==
    /\ load[l].pc \in {"token", "inflight"}
    /\ isLoadingChatData' = FALSE
    /\ load' = [load EXCEPT ![l] = SettledLoad]
    /\ UNCHANGED <<projectVars, opsVars, dashboardVars, routeVars>>
    /\ UNCHANGED <<userId, chatId, currentChatData, sendMessageError,
                   isMessageSending, clock, server, nextId, send>>

\* ------------------------------------------------------ handleSendMessage
\* The synchronous part of handleSendMessage(content), up to await getToken().
\* `now` is the reading of Date.now(): the clock has moved on by any amount
\* since it was last read.
HandleSendMessage(p, content, now) ==
    /\ NextSend(p)
    /\ now >= clock
    /\ clock' = now
    /\ IF PreconditionFails(currentChatData, userId)
       THEN /\ sendMessageError' = "Chat or user not found"
            /\ isMessageSending' = FALSE
            /\ currentChatData' = currentChatData
            /\ send' = [send EXCEPT ![p] = SettledSend("invalid")]
       ELSE LET msg == OptimisticUserMessage(currentChatData, content, now) IN
            /\ sendMessageError' = NoError
            /\ isMessageSending' = TRUE
            /\ currentChatData' = OptimisticAppend(currentChatData, msg)
            /\ send' = [send EXCEPT ![p].pc = "token", ![p].temp = msg,
                                    ![p].chat = currentChatData.id,
                                    ![p].content = content,
                                    ![p].before = currentChatData]
    /\ UNCHANGED <<projectVars, opsVars, dashboardVars, routeVars>>
    /\ UNCHANGED <<userId, chatId, isLoadingChatData, server, nextId, load>>

\* ChatInterface calls onSendMessage: it is on screen.
OnSendMessage(p, content, now) ==
    /\ ChatInterfaceRendered
    /\ HandleSendMessage(p, content, now)

\* ChatInterface calls onDismissError: setSendMessageError(null).
OnDismissError ==
    /\ ChatInterfaceRendered
    /\ sendMessageError' = NoError
    /\ UNCHANGED <<projectVars, opsVars, dashboardVars, routeVars>>
    /\ UNCHANGED <<userId, chatId, currentChatData, isLoadingChatData, isMessageSending,
                   clock, server, nextId, send, load>>

\* getToken() resolved and apiClient.post is issued.  The server either creates
\* the user message and the assistant reply, or the request fails.
SendRequest(p) ==
    /\ send[p].pc = "token"
    /\ \E ok \in BOOLEAN :
        IF ok
        THEN LET um == [id |-> DurableId(nextId), chat_id |-> send[p].chat,
                        role |-> "user", content |-> send[p].content]
                 ai == [id |-> DurableId(nextId + 1), chat_id |-> send[p].chat,
                        role |-> "assistant", content |-> "reply"]
             IN /\ server' = [server EXCEPT ![send[p].chat] = @ \o <<um, ai>>]
                /\ nextId' = nextId + 2
                /\ send' = [send EXCEPT ![p].pc = "inflight", ![p].out = "ok",
                                        ![p].resp = <<um, ai>>,
                                        ![p].posts = @ + 1]
        ELSE /\ send' = [send EXCEPT ![p].pc = "inflight", ![p].out = "fail",
                                     ![p].posts = @ + 1]
             /\ UNCHANGED <<server, nextId>>
    /\ UNCHANGED <<projectVars, opsVars, dashboardVars, routeVars>>
    /\ UNCHANGED <<userId, chatId, page, clock, load>>

\* The code after the awaits on success, and the finally block.
SendSuccess(p) ==
    /\ send[p].pc = "inflight" /\ send[p].out = "ok"
    /\ currentChatData' = Reconcile(currentChatData, send[p].temp.id,
                                    send[p].resp[1], send[p].resp[2])
    /\ isMessageSending' = FALSE
    /\ send' = [send EXCEPT ![p] = SettledSend("ok")]
    /\ UNCHANGED <<projectVars, opsVars, dashboardVars, routeVars>>
    /\ UNCHANGED <<userId, chatId, isLoadingChatData, sendMessageError, clock,
                   server, nextId, load>>

CatchRetries(p) ==
    /\ send' = [send EXCEPT ![p].pc = "token"]
    /\ UNCHANGED <<projectVars, opsVars, dashboardVars, routeVars>>
    /\ UNCHANGED <<userId, chatId, page, clock, server, nextId, load>>

\* The catch block and the finally block.
Catch(p) ==
    /\ sendMessageError' = "Failed to send message"
    /\ currentChatData' = Rollback(currentChatData)
    /\ isMessageSending' = FALSE
    /\ send' = [send EXCEPT ![p] = SettledSend("fail")]
    /\ UNCHANGED <<projectVars, opsVars, dashboardVars, routeVars>>
    /\ UNCHANGED <<userId, chatId, isLoadingChatData, clock, server, nextId, load>>

\* apiClient.post threw.
SendFailure(p) ==
    /\ send[p].pc = "inflight" /\ send[p].out = "fail"
    /\ Catch(p)

\* getToken() threw: no request is issued.
SendTokenFailure(p) ==
    /\ send[p].pc = "token"
    /\ Catch(p)

\* ---------------------------------------------------------- specifications
Next ==
    \/ \E u \in {NoUser, "u1"} : ChangeUserId(u)
    \/ \E l \in Loads : LoadRequest(l)
    \/ \E l \in Loads : LoadSuccess(l)
    \/ \E l \in Loads : LoadFailure(l)
    \/ \E p \in Calls, content \in Contents, now \in Times :
            OnSendMessage(p, content, now)
    \/ \E p \in Calls : SendRequest(p)
    \/ \E p \in Calls : SendSuccess(p)
    \/ \E p \in Calls : SendFailure(p)
    \/ \E p \in Calls : SendTokenFailure(p)
    \/ OnDismissError

Spec == Init /\ [][Next]_vars

\* handleSendMessage called as an operation in any state of the page, whether or
\* not ChatInterface is on screen.
NextHandler ==
    \/ \E u \in {NoUser, "u1"} : ChangeUserId(u)
    \/ \E l \in Loads : LoadRequest(l)
    \/ \E l \in Loads : LoadSuccess(l)
    \/ \E l \in Loads : LoadFailure(l)
    \/ \E p \in Calls, content \in Contents, now \in Times :
            HandleSendMessage(p, content, now)
    \/ \E p \in Calls : SendRequest(p)
    \/ \E p \in Calls : SendSuccess(p)
    \/ \E p \in Calls : SendFailure(p)
    \/ \E p \in Calls : SendTokenFailure(p)
    \/ OnDismissError

SpecHandler == Init /\ [][NextHandler]_vars

\* The chatId route parameter changes under the mounted page.
NextNav ==
    \/ Next
    \/ \E c \in ChatIds : ChangeChatId(c)

SpecNav == Init /\ [][NextNav]_vars

(***************************************************************************)
(* The project page.                                                       *)
(***************************************************************************)

\* The chat page is not on screen.
ChatPageIdle ==
    /\ chatId = "c1"
    /\ currentChatData = NoChat
    /\ isLoadingChatData = TRUE
    /\ sendMessageError = NoError
    /\ isMessageSending = FALSE
    /\ clock = 0
    /\ server = [c \in ChatIds |-> << >>]
    /\ nextId = 1
    /\ send = [p \in Calls |-> IdleSend]
    /\ load = [l \in Loads |-> IdleLoad]

DefaultSettings == [k \in SettingKeys |-> 0]

\* The project page is opened on a project with some documents.
InitPolling ==
    /\ userId \in {NoUser, "u1"}
    /\ ChatPageIdle
    /\ \E docs \in InitialDocs : ProjectPageState(TRUE, docs, DefaultSettings)
    /\ ProjectOpsIdle(<< >>)
    /\ DashboardIdle

AlwaysProcessing(docs) == TRUE
MissingStatusIsProcessing(docs) ==
    \E i \in DOMAIN docs : docs[i].processing_status \notin {"completed", "failed"}
NeverProcessing(docs) == FALSE

\* hasProcessingDocuments of the polling effect.
HasProcessingDocuments(docs) ==
    \E i \in DOMAIN docs :
        /\ docs[i].processing_status # ""
        /\ docs[i].processing_status \notin {"completed", "failed"}

KeepInterval(t) == t

\* The cleanup of the polling effect; an effect run that set no interval
\* returned no cleanup.
ClearInterval(t) == IF t > 0 THEN t - 1 ELSE 0

\* The polling effect for a new documents array: the previous run's cleanup,
\* then the new run.
PollEffect(t, docs) ==
    ClearInterval(t) + (IF HasProcessingDocuments(docs) THEN 1 ELSE 0)

\* The callbacks of the interval the cleanup has cleared keep running; the
\* model remembers which ones they are.
CancelAll(pl) ==
    [k \in Polls |-> IF pl[k].pc \in {"token", "inflight"} /\ pl[k].cancelled = "no"
                     THEN [pl[k] EXCEPT !.cancelled = pl[k].pc]
                     ELSE pl[k]]

\* setData with a new documents array, and the polling effect that follows it.
SetDocuments(newData, pl) ==
    /\ data' = newData
    /\ timers' = PollEffect(timers, newData.documents)
    /\ poll' = CancelAll(pl)

NextPoll(k) == poll[k].pc = "idle" /\ \A h \in Polls : h < k => poll[h].pc # "idle"
NextUrlAdd(j) == urlAdd[j].pc = "idle" /\ \A h \in Urls : h < j => urlAdd[h].pc # "idle"
NextPublish(q) ==
    publish[q].pc = "idle" /\ \A h \in Publishes : h < q => publish[h].pc # "idle"

\* What getToken or fetch may throw: an Error, whose message may be the empty
\* string, or a value that is not an Error.
Thrown == {[isError |-> TRUE, message |-> ""],
           [isError |-> FALSE, message |-> ""]}

\* What apiClient throws when the response is not ok: put has its own text.
ApiError(method) ==
    [isError |-> TRUE,
     message |-> IF method = "PUT" THEN "API Error: 500" ELSE "HTTP error! status: 500"]

\* What a call of apiClient may reject with.
Rejected(method) == Thrown \cup {ApiError(method)}

\* err instanceof Error ? err.message : fallback
ErrorMessageOf(err, fallback) == IF err.isError THEN err.message ELSE fallback

\* `if (error)`: null and the empty string are falsy.
Truthy(e) == e # NoError /\ e # ""

\* The page shows the conversations list and the knowledge base sidebar.
PageRendered == mounted /\ ~loading /\ ~Truthy(error)

\* What the server holds for a project: the project opened first is the one
\* the model's server variables describe, another project is an empty one.
ServerBundle(p) ==
    IF p = "p1"
    THEN [project |-> p, chats |-> srvChats, documents |-> srvDocs,
          settings |-> srvSettings]
    ELSE [project |-> p, chats |-> << >>, documents |-> << >>,
          settings |-> DefaultSettings]

\* loadProjectData after `await getToken()`: the four GET requests, each of
\* which the server answers or fails.
ProjectLoadRequest(l) ==
    /\ projectLoad[l].pc = "token"
    /\ \E failed \in SUBSET Fetches :
        projectLoad' = [projectLoad EXCEPT ![l].pc = "inflight",
                                           ![l].data = ServerBundle(projectLoad[l].id),
                                           ![l].failed = failed]
    /\ UNCHANGED <<mounted, data, loading, error, warned, timers, poll, urlAdd,
                   publish, srvDocs, srvSettings, nextDoc>>
    /\ UNCHANGED <<userId, chatVars, opsVars, dashboardVars, routeVars>>

\* loadProjectData: Promise.all resolved, the four responses arrived.
ProjectLoadSuccess(l) ==
    /\ projectLoad[l].pc = "inflight" /\ projectLoad[l].failed = {}
    /\ projectLoad' = [projectLoad EXCEPT ![l] = SettledProjectLoad(projectLoad[l].id, "ok")]
    /\ IF mounted
       THEN /\ SetDocuments(projectLoad[l].data, poll)
            /\ loading' = FALSE
       ELSE UNCHANGED <<data, timers, poll, loading>>
    /\ UNCHANGED <<mounted, error, warned, urlAdd, publish, srvDocs, srvSettings, nextDoc>>
    /\ UNCHANGED <<userId, chatVars, opsVars, dashboardVars, routeVars>>

PartialBundle(prev, bundle, failed) ==
    [f \in Fetches |-> IF f \in failed THEN prev[f] ELSE bundle[f]]

ProjectLoadFailureKeepsRest(l) ==
    /\ \/ projectLoad[l].pc = "token"
       \/ projectLoad[l].pc = "inflight" /\ projectLoad[l].failed # {}
    /\ projectLoad' = [projectLoad EXCEPT ![l] = SettledProjectLoad(projectLoad[l].id, "fail")]
    /\ IF mounted
       THEN /\ \E err \in (IF projectLoad[l].pc = "token" THEN Thrown ELSE Rejected("GET")) :
                    error' = ErrorMessageOf(err, "Failed to fetch data")
            /\ loading' = FALSE
            /\ IF projectLoad[l].pc = "inflight"
               THEN SetDocuments(PartialBundle(data, projectLoad[l].data,
                                               projectLoad[l].failed), poll)
               ELSE UNCHANGED <<data, timers, poll>>
       ELSE UNCHANGED <<error, loading, data, timers, poll>>
    /\ UNCHANGED <<mounted, warned, urlAdd, publish, srvDocs, srvSettings, nextDoc>>
    /\ UNCHANGED <<userId, chatVars, opsVars, dashboardVars, routeVars>>

\* loadProjectData: getToken threw or Promise.all rejected because one of the
\* four requests failed.
ProjectLoadFailure(l) ==
    /\ \/ projectLoad[l].pc = "token"
       \/ projectLoad[l].pc = "inflight" /\ projectLoad[l].failed # {}
    /\ projectLoad' = [projectLoad EXCEPT ![l] = SettledProjectLoad(projectLoad[l].id, "fail")]
    /\ IF mounted
       THEN /\ \E err \in (IF projectLoad[l].pc = "token" THEN Thrown ELSE Rejected("GET")) :
                    error' = ErrorMessageOf(err, "Failed to fetch data")
            /\ loading' = FALSE
       ELSE UNCHANGED <<error, loading>>
    /\ UNCHANGED <<mounted, data, warned, timers, poll, urlAdd, publish, srvDocs,
                   srvSettings, nextDoc>>
    /\ UNCHANGED <<userId, chatVars, opsVars, dashboardVars, routeVars>>

\* The interval fires: the callback starts and waits for getToken.
Tick(k) ==
    /\ timers > 0
    /\ NextPoll(k)
    /\ poll' = [poll EXCEPT ![k] = [IdlePoll EXCEPT !.pc = "token", !.id = projectId]]
    /\ UNCHANGED <<mounted, data, loading, error, warned, timers, projectLoad, urlAdd,
                   publish, srvDocs, srvSettings, nextDoc>>
    /\ UNCHANGED <<userId, chatVars, opsVars, dashboardVars, routeVars>>

\* The callback after `await getToken()`: GET /api/project/{id}/files.
PollRequest(k) ==
    /\ poll[k].pc = "token"
    /\ poll' = [poll EXCEPT ![k].pc = "inflight",
                            ![k].docs = ServerBundle(poll[k].id).documents]
    /\ UNCHANGED <<mounted, data, loading, error, warned, timers, projectLoad, urlAdd,
                   publish, srvDocs, srvSettings, nextDoc>>
    /\ UNCHANGED <<userId, chatVars, opsVars, dashboardVars, routeVars>>

PollSuccessResetsDraft(k) ==
    /\ poll[k].pc = "inflight"
    /\ IF mounted
       THEN SetDocuments([data EXCEPT !.documents = poll[k].docs,
                                      !.settings = srvSettings],
                         [poll EXCEPT ![k] = SettledPoll])
       ELSE /\ poll' = [poll EXCEPT ![k] = SettledPoll]
            /\ UNCHANGED <<data, timers>>
    /\ UNCHANGED <<mounted, loading, error, warned, projectLoad, urlAdd, publish,
                   srvDocs, srvSettings, nextDoc>>
    /\ UNCHANGED <<userId, chatVars, opsVars, dashboardVars, routeVars>>

\* The callback after the response: setData replaces the documents.
PollSuccess(k) ==
    /\ poll[k].pc = "inflight"
    /\ IF mounted
       THEN SetDocuments([data EXCEPT !.documents = poll[k].docs],
                         [poll EXCEPT ![k] = SettledPoll])
       ELSE /\ poll' = [poll EXCEPT ![k] = SettledPoll]
            /\ UNCHANGED <<data, timers>>
    /\ UNCHANGED <<mounted, loading, error, warned, projectLoad, urlAdd, publish,
                   srvDocs, srvSettings, nextDoc>>
    /\ UNCHANGED <<userId, chatVars, opsVars, dashboardVars, routeVars>>

\* The callback's catch: console.error only.
PollFailure(k) ==
    /\ poll[k].pc \in {"token", "inflight"}
    /\ poll' = [poll EXCEPT ![k] = FailedPoll]
    /\ UNCHANGED <<mounted, data, loading, error, warned, timers, projectLoad, urlAdd,
                   publish, srvDocs, srvSettings, nextDoc>>
    /\ UNCHANGED <<userId, chatVars, opsVars, dashboardVars, routeVars>>

\* The remote collaborator's pipeline ends in one of the two terminal
\* statuses; which one is a property of the document.
Outcome(doc) == IF doc.id % 2 = 1 THEN "completed" ELSE "failed"

\* The remote collaborator finishes processing a document.
ServerProgress(i) ==
    /\ i \in DOMAIN srvDocs
    /\ srvDocs[i].processing_status = "processing"
    /\ srvDocs' = [srvDocs EXCEPT ![i].processing_status = Outcome(srvDocs[i])]
    /\ UNCHANGED <<mounted, data, loading, error, warned, timers, poll, projectLoad,
                   urlAdd, publish, srvSettings, nextDoc>>
    /\ UNCHANGED <<userId, chatVars, opsVars, dashboardVars, routeVars>>

HandleUrlAddUnguarded(j) ==
    /\ PageRendered
    /\ NextUrlAdd(j)
    /\ urlAdd' = [urlAdd EXCEPT ![j].pc = "token"]
    /\ UNCHANGED <<mounted, data, loading, error, warned, timers, poll, projectLoad,
                   publish, srvDocs, srvSettings, nextDoc>>
    /\ UNCHANGED <<userId, chatVars, opsVars, dashboardVars, routeVars>>

\* handleUrlAdd up to `await getToken()`; without a user it returns at once.
HandleUrlAdd(j) ==
    /\ PageRendered
    /\ NextUrlAdd(j)
    /\ urlAdd' = [urlAdd EXCEPT ![j].pc = IF userId = NoUser THEN "returned" ELSE "token"]
    /\ UNCHANGED <<mounted, data, loading, error, warned, timers, poll, projectLoad,
                   publish, srvDocs, srvSettings, nextDoc>>
    /\ UNCHANGED <<userId, chatVars, opsVars, dashboardVars, routeVars>>

\* handleUrlAdd: POST process-url; the server creates the document record.
UrlAddRequest(j) ==
    /\ urlAdd[j].pc = "token"
    /\ LET doc == Doc(nextDoc, "processing")
       IN /\ srvDocs' = <<doc>> \o srvDocs
          /\ nextDoc' = nextDoc + 1
          /\ urlAdd' = [urlAdd EXCEPT ![j] = [pc |-> "inflight", doc |-> doc]]
    /\ UNCHANGED <<mounted, data, loading, error, warned, timers, poll, projectLoad,
                   publish, srvSettings>>
    /\ UNCHANGED <<userId, chatVars, opsVars, dashboardVars, routeVars>>

\* handleUrlAdd: the new document is put in front of the documents.
UrlAddSuccess(j) ==
    /\ urlAdd[j].pc = "inflight"
    /\ urlAdd' = [urlAdd EXCEPT ![j] = [IdleUrlAdd EXCEPT !.pc = "done"]]
    /\ IF mounted
       THEN SetDocuments([data EXCEPT !.documents = <<urlAdd[j].doc>> \o @], poll)
       ELSE UNCHANGED <<data, timers, poll>>
    /\ UNCHANGED <<mounted, loading, error, warned, projectLoad, publish, srvDocs,
                   srvSettings, nextDoc>>
    /\ UNCHANGED <<userId, chatVars, opsVars, dashboardVars, routeVars>>

\* handleUrlAdd's catch: a toast only.
UrlAddFailure(j) ==
    /\ urlAdd[j].pc = "token"
    /\ urlAdd' = [urlAdd EXCEPT ![j] = [IdleUrlAdd EXCEPT !.pc = "done"]]
    /\ UNCHANGED <<mounted, data, loading, error, warned, timers, poll, projectLoad,
                   publish, srvDocs, srvSettings, nextDoc>>
    /\ UNCHANGED <<userId, chatVars, opsVars, dashboardVars, routeVars>>

UnmountKeepsInterval ==
    /\ mounted
    /\ mounted' = FALSE
    /\ UNCHANGED <<data, loading, error, warned, timers, poll, projectLoad, urlAdd,
                   publish, srvDocs, srvSettings, nextDoc>>
    /\ UNCHANGED <<userId, chatVars, opsVars, dashboardVars, routeVars>>

\* The page is left: React runs the cleanup of the polling effect.
Unmount ==
    /\ mounted
    /\ mounted' = FALSE
    /\ timers' = ClearInterval(timers)
    /\ poll' = CancelAll(poll)
    /\ UNCHANGED <<data, loading, error, warned, projectLoad, urlAdd, publish, srvDocs,
                   srvSettings, nextDoc>>
    /\ UNCHANGED <<userId, chatVars, opsVars, dashboardVars, routeVars>>

NextPolling ==
    \/ \E l \in ProjectLoads : ProjectLoadRequest(l)
    \/ \E l \in ProjectLoads : ProjectLoadSuccess(l)
    \/ \E l \in ProjectLoads : ProjectLoadFailure(l)
    \/ \E k \in Polls : Tick(k)
    \/ \E k \in Polls : PollRequest(k)
    \/ \E k \in Polls : PollSuccess(k)
    \/ \E k \in Polls : PollFailure(k)
    \/ \E i \in 1..(MaxUrls + 1) : ServerProgress(i)
    \/ \E j \in Urls : HandleUrlAdd(j)
    \/ \E j \in Urls : UrlAddRequest(j)
    \/ \E j \in Urls : UrlAddSuccess(j)
    \/ \E j \in Urls : UrlAddFailure(j)
    \/ Unmount

\* The project page with its poller: load, interval ticks, URL additions and
\* the server's progress.
SpecPoll == InitPolling /\ [][NextPolling]_vars


\* ------------------------------------------------- vocabulary of the claims
Msgs == currentChatData.messages
Has(seq, m) == \E i \in DOMAIN seq : seq[i] = m
HasId(seq, id) == \E i \in DOMAIN seq : seq[i].id = id
NoTentative(seq) == \A i \in DOMAIN seq : ~StartsWithTemp(seq[i].id)
Without(seq, id) == SelectSeq(seq, LAMBDA m : m.id # id)

\* The call has appended its optimistic message and has not settled.
InFlight(p) == send[p].pc \in {"token", "inflight"}
\* This step is the call's first, synchronous part.
StartStep(p) == send[p].pc = "idle" /\ send'[p].pc # "idle"
\* This step applies the call's reconciliation / its rollback.
ReconcileStep(p) == send[p].pc = "inflight" /\ send'[p].pc = "done" /\ send'[p].out = "ok"
RollbackStep(p) == InFlight(p) /\ send'[p].pc = "done" /\ send'[p].out = "fail"
\* This step applies a load's response to the store.
LoadApplied(l) ==
    load[l].pc = "inflight" /\ load'[l].pc = "done" /\ currentChatData' = load[l].data

\* ----------------------------------------------------------------- C1
\* C1 as stated: after the reconciliation step of a successful call the sequence
\* holds no tentative entry, and what it holds beyond the sequence before the call
\* is the confirmed user message followed by the assistant reply.
C1_AsStated ==
    [][\A p \in Calls : ReconcileStep(p) =>
          /\ NoTentative(Msgs')
          /\ Msgs' = send[p].before.messages \o send[p].resp]_vars

\* C1 amended: the reconciliation step of a successful call removes the entries
\* with the call's own tentative identifier, keeps every other entry in place and
\* appends the confirmed user message followed by the assistant reply; no tentative
\* entry is left when no other call is in flight.
C1_Reconciled ==
    [][\A p \in Calls : ReconcileStep(p) =>
          LET t == send[p].temp.id
              n == Len(Msgs')
          IN /\ ~HasId(Msgs', t)
             /\ n >= 2
             /\ SubSeq(Msgs', 1, n - 2) = Without(Msgs, t)
             /\ Msgs'[n - 1] = send[p].resp[1] /\ Msgs'[n] = send[p].resp[2]
             /\ Msgs'[n - 1].role = "user" /\ ~StartsWithTemp(Msgs'[n - 1].id)
             /\ Msgs'[n].role = "assistant" /\ ~StartsWithTemp(Msgs'[n].id)
             /\ (\A q \in Calls \ {p} : ~InFlight(q)) => NoTentative(Msgs')]_vars

\* A call has been reconciled while another call's tentative entry is in the store.
C1_Witness ==
    \E p, q \in Calls :
        /\ send[p].pc = "done" /\ send[p].out = "ok"
        /\ InFlight(q) /\ Has(Msgs, send[q].temp)
        /\ \E i \in DOMAIN Msgs : Msgs[i].role = "assistant"

\* ----------------------------------------------------------------- C2
\* C2: after the rollback step of a failed call the sequence equals the sequence
\* that existed when the call started.
C2_RollbackRestores ==
    [][\A p \in Calls : RollbackStep(p) => Msgs' = send[p].before.messages]_vars

\* ----------------------------------------------------------------- C3
\* C3: the reconciliation of a successful call leaves the tentative entry of
\* another call in flight in the store, and two successful calls leave exactly two
\* user/assistant pairs.
C3_TwoSends ==
    /\ [][\A p, q \in Calls :
            (p # q /\ ReconcileStep(p) /\ InFlight(q) /\ Has(Msgs, send[q].temp))
                => Has(Msgs', send[q].temp)]_vars
    /\ []((/\ \A p \in Calls : p <= 2 => send[p].pc = "done" /\ send[p].out = "ok"
           /\ \A p \in Calls : p > 2 => send[p].pc = "idle"
           /\ \A l \in Loads : l > 1 => load[l].pc = "idle")
            => /\ Len(Msgs) = 4 /\ NoTentative(Msgs)
               /\ \A i \in {1, 3} : Msgs[i].role = "user" /\ Msgs[i + 1].role = "assistant")

\* ----------------------------------------------------------------- C4
\* C4: the step that settles a call, by reconciliation or by rollback, leaves in
\* the store the tentative entry of every other call in flight (an entry with
\* another identifier than the settling call's own).
C4_OnlyOwnTentative ==
    [][\A p, q \in Calls :
          (/\ p # q
           /\ ReconcileStep(p) \/ RollbackStep(p)
           /\ InFlight(q) /\ Has(Msgs, send[q].temp)
           /\ send[q].temp.id # send[p].temp.id)
            => Has(Msgs', send[q].temp)]_vars

\* ----------------------------------------------------------------- C5
\* C5: two calls mint different tentative identifiers, and no two entries of the
\* store share a tentative identifier.
C5_UniqueTentativeIds ==
    /\ \A p, q \in Calls :
          (p # q /\ send[p].temp # NoMsg /\ send[q].temp # NoMsg)
            => send[p].temp.id # send[q].temp.id
    /\ \A i, j \in DOMAIN Msgs :
          (i # j /\ StartsWithTemp(Msgs[i].id)) => Msgs[i].id # Msgs[j].id

\* ----------------------------------------------------------------- C6
\* C6: every tentative entry of the store is the entry of a call still in flight;
\* with no call in flight the store holds no tentative entry.
C6_TentativeIsTransient ==
    /\ \A i \in DOMAIN Msgs :
          StartsWithTemp(Msgs[i].id) => \E p \in Calls : InFlight(p) /\ send[p].temp = Msgs[i]
    /\ (\A p \in Calls : ~InFlight(p)) => NoTentative(Msgs)

\* A call has failed and been rolled back in a loaded chat, none is in flight.
C6_Witness ==
    /\ currentChatData # NoChat
    /\ \E p \in Calls : send[p].pc = "done" /\ send[p].out = "fail"
    /\ \A p \in Calls : ~InFlight(p)
    /\ sendMessageError = "Failed to send message"

\* ----------------------------------------------------------------- C7
\* C7: a call made with no chat loaded or no user id sets the error, leaves the
\* store and the server as they are, mints nothing, issues no request and is over.
C7_InvalidState ==
    [][\A p \in Calls :
          (StartStep(p) /\ (currentChatData = NoChat \/ userId = NoUser)) =>
              /\ currentChatData' = currentChatData
              /\ sendMessageError' = "Chat or user not found"
              /\ isMessageSending' = FALSE
              /\ send'[p].pc = "done" /\ send'[p].out = "invalid"
              /\ send'[p].temp = NoMsg /\ send'[p].posts = 0
              /\ server' = server /\ nextId' = nextId]_vars

\* A call was rejected because no chat is loaded, the user being signed in.
C7_Witness ==
    /\ \E p \in Calls : send[p].out = "invalid"
    /\ currentChatData = NoChat /\ userId # NoUser
    /\ sendMessageError = "Chat or user not found"

\* ----------------------------------------------------------------- C8
\* C8: no two messages of the sequence carry the same durable identifier.
C8_NoDuplicateDurableIds ==
    \A i, j \in DOMAIN Msgs :
        (i # j /\ ~StartsWithTemp(Msgs[i].id)) => Msgs[i].id # Msgs[j].id

\* ----------------------------------------------------------------- C9
\* C9: the reconciliation step takes the tentative entry out and puts the
\* confirmed user message and the assistant reply in, in the one step; in no
\* state has the tentative entry of a call whose request succeeded left the
\* sequence while the call's confirmed user message is not in it; and in no
\* state is a confirmed user message in the sequence without its reply after it.
C9_AtomicReconcile ==
    /\ [][\A p \in Calls : ReconcileStep(p) =>
            LET n == Len(Msgs') IN
            /\ ~HasId(Msgs', send[p].temp.id)
            /\ n >= 2 /\ Msgs'[n - 1] = send[p].resp[1] /\ Msgs'[n] = send[p].resp[2]]_vars
    /\ [](\A p \in Calls :
            (send[p].pc = "inflight" /\ send[p].out = "ok"
                /\ ~HasId(Msgs, send[p].temp.id)) => Has(Msgs, send[p].resp[1]))
    /\ [](\A i \in DOMAIN Msgs :
            (Msgs[i].role = "user" /\ ~StartsWithTemp(Msgs[i].id)) =>
                /\ i + 1 \in DOMAIN Msgs
                /\ Msgs[i + 1].role = "assistant"
                /\ Msgs[i + 1].id = DurableId(Msgs[i].id[2] + 1))

\* ---------------------------------------------------------------- C10
\* C10: the first step of a call appends the tentative message and issues no
\* request, and the sequence holds the call's tentative message in the state
\* in which the call issues its request.
C10_AppendBeforeRequest ==
    [][\A p \in Calls :
          /\ (StartStep(p) /\ send'[p].out # "invalid") =>
                /\ Msgs' = Append(Msgs, send'[p].temp)
                /\ StartsWithTemp(send'[p].temp.id)
                /\ send'[p].pc = "token" /\ send'[p].posts = 0
                /\ server' = server
          /\ (send[p].pc = "token" /\ send'[p].pc = "inflight") =>
                Has(Msgs, send[p].temp)]_vars

\* ---------------------------------------------------------------- C11
\* C11: the reconciliation step of a successful call puts the call's confirmed
\* user message directly before the call's assistant reply, whatever other calls
\* are in flight; and in every state each assistant reply of the sequence stands
\* directly after the user message it answers.
C11_UserBeforeReply ==
    /\ [][\A p \in Calls : ReconcileStep(p) =>
            \E i \in DOMAIN Msgs' :
                /\ i + 1 \in DOMAIN Msgs'
                /\ Msgs'[i] = send[p].resp[1] /\ Msgs'[i].role = "user"
                /\ Msgs'[i + 1] = send[p].resp[2] /\ Msgs'[i + 1].role = "assistant"
                /\ \A j \in DOMAIN Msgs' : Msgs'[j] = send[p].resp[2] => j > i]_vars
    /\ [](\A j \in DOMAIN Msgs :
            Msgs[j].role = "assistant" =>
                /\ j > 1
                /\ Msgs[j - 1].role = "user"
                /\ Msgs[j - 1].id = DurableId(Msgs[j].id[2] - 1))

\* Two calls have succeeded and were reconciled in the other order than the server
\* served them: the later pair stands before the earlier one.
C11_Witness ==
    /\ \A p \in Calls : p <= 2 => send[p].pc = "done" /\ send[p].out = "ok"
    /\ \E i, j \in DOMAIN Msgs :
        /\ i < j /\ Msgs[i].role = "user" /\ Msgs[j].role = "user"
        /\ Msgs[i].id[2] > Msgs[j].id[2]

\* ------------------------------------------------------------ settings
\* The project page is opened on a project whose settings may not exist yet.
InitSettings ==
    /\ userId \in {NoUser, "u1"}
    /\ ChatPageIdle
    /\ \E settings \in {NoSettings, DefaultSettings} :
        ProjectPageState(TRUE, << >>, settings)
    /\ ProjectOpsIdle(<< >>)
    /\ DashboardIdle

MergeFabricates(settings, updates) ==
    [k \in DOMAIN settings \cup DOMAIN updates |->
        IF k \in DOMAIN updates THEN updates[k] ELSE settings[k]]

MergeIgnoresUpdates(settings, updates) == settings

\* The updater of handleDraftSettings on the settings:
\* prev.settings ? {...prev.settings, ...updates} : prev.settings
Merge(settings, updates) ==
    IF settings = NoSettings THEN settings
    ELSE [k \in DOMAIN settings \cup DOMAIN updates |->
            IF k \in DOMAIN updates THEN updates[k] ELSE settings[k]]

HandleDraftSettingsSaves(updates) ==
    /\ mounted
    /\ data' = [data EXCEPT !.settings = Merge(@, updates)]
    /\ srvSettings' = Merge(data.settings, updates)
    /\ warned' = (warned \/ data.settings = NoSettings)
    /\ UNCHANGED <<mounted, loading, error, timers, poll, projectLoad, urlAdd, publish,
                   srvDocs, nextDoc>>
    /\ UNCHANGED <<userId, chatVars, opsVars, dashboardVars, routeVars>>

\* handleDraftSettings(updates): one setData, no request.
HandleDraftSettings(updates) ==
    /\ mounted
    /\ data' = [data EXCEPT !.settings = Merge(@, updates)]
    /\ warned' = (warned \/ data.settings = NoSettings)
    /\ UNCHANGED <<mounted, loading, error, timers, poll, projectLoad, urlAdd, publish,
                   srvDocs, srvSettings, nextDoc>>
    /\ UNCHANGED <<userId, chatVars, opsVars, dashboardVars, routeVars>>

\* KnowledgeBaseSidebar onUpdateSettings: the handler is reachable once the
\* page is rendered.
OnUpdateSettings(updates) == PageRendered /\ HandleDraftSettings(updates)

\* handlePublishSettings up to `await getToken()`; without a user or without
\* settings it returns at once.
HandlePublishSettings(q) ==
    /\ PageRendered
    /\ NextPublish(q)
    /\ publish' = [publish EXCEPT ![q] =
            IF userId = NoUser \/ data.settings = NoSettings
            THEN [IdlePublish EXCEPT !.pc = "returned"]
            ELSE [pc |-> "token", sent |-> data.settings, out |-> "none"]]
    /\ UNCHANGED <<mounted, data, loading, error, warned, timers, poll, projectLoad,
                   urlAdd, srvDocs, srvSettings, nextDoc>>
    /\ UNCHANGED <<userId, chatVars, opsVars, dashboardVars, routeVars>>

\* handlePublishSettings: PUT settings/update with the settings of the call's
\* render; the server replaces its copy or answers with an error.
PublishRequest(q) ==
    /\ publish[q].pc = "token"
    /\ \E ok \in BOOLEAN :
        IF ok
        THEN /\ srvSettings' = publish[q].sent
             /\ publish' = [publish EXCEPT ![q].pc = "inflight", ![q].out = "ok"]
        ELSE /\ publish' = [publish EXCEPT ![q].pc = "inflight", ![q].out = "fail"]
             /\ UNCHANGED srvSettings
    /\ UNCHANGED <<mounted, data, loading, error, warned, timers, poll, projectLoad,
                   urlAdd, srvDocs, nextDoc>>
    /\ UNCHANGED <<userId, chatVars, opsVars, dashboardVars, routeVars>>

\* handlePublishSettings: the PUT succeeded; a toast only.
PublishSuccess(q) ==
    /\ publish[q].pc = "inflight" /\ publish[q].out = "ok"
    /\ publish' = [publish EXCEPT ![q] = SettledPublish("ok")]
    /\ UNCHANGED <<mounted, data, loading, error, warned, timers, poll, projectLoad,
                   urlAdd, srvDocs, srvSettings, nextDoc>>
    /\ UNCHANGED <<userId, chatVars, opsVars, dashboardVars, routeVars>>

PublishFailureDiscardsDraft(q) ==
    /\ \/ publish[q].pc = "token"
       \/ publish[q].pc = "inflight" /\ publish[q].out = "fail"
    /\ publish' = [publish EXCEPT ![q] = SettledPublish("fail")]
    /\ \E err \in (IF publish[q].pc = "token" THEN Thrown ELSE Rejected("PUT")) :
        error' = IF mounted THEN ErrorMessageOf(err, "Failed to publish settings") ELSE error
    /\ data' = [data EXCEPT !.settings = srvSettings]
    /\ UNCHANGED <<mounted, loading, warned, timers, poll, projectLoad, urlAdd,
                   srvDocs, srvSettings, nextDoc>>
    /\ UNCHANGED <<userId, chatVars, opsVars, dashboardVars, routeVars>>

\* handlePublishSettings' catch (getToken or the PUT threw): setError, toast.
PublishFailure(q) ==
    /\ \/ publish[q].pc = "token"
       \/ publish[q].pc = "inflight" /\ publish[q].out = "fail"
    /\ publish' = [publish EXCEPT ![q] = SettledPublish("fail")]
    /\ \E err \in (IF publish[q].pc = "token" THEN Thrown ELSE Rejected("PUT")) :
        error' = IF mounted THEN ErrorMessageOf(err, "Failed to publish settings") ELSE error
    /\ UNCHANGED <<mounted, data, loading, warned, timers, poll, projectLoad, urlAdd,
                   srvDocs, srvSettings, nextDoc>>
    /\ UNCHANGED <<userId, chatVars, opsVars, dashboardVars, routeVars>>

LoadAndPublish ==
    \/ \E l \in ProjectLoads : ProjectLoadRequest(l)
    \/ \E l \in ProjectLoads : ProjectLoadSuccess(l)
    \/ \E l \in ProjectLoads : ProjectLoadFailure(l)
    \/ \E q \in Publishes : HandlePublishSettings(q)
    \/ \E q \in Publishes : PublishRequest(q)
    \/ \E q \in Publishes : PublishSuccess(q)
    \/ \E q \in Publishes : PublishFailure(q)

NextSettings ==
    \/ LoadAndPublish
    \/ \E updates \in Partials : OnUpdateSettings(updates)
    \/ Unmount

\* The project page with its settings: load, draft edits and publishes made
\* through the rendered page.
SpecSettings == InitSettings /\ [][NextSettings]_vars

NextSettingsHandler ==
    \/ LoadAndPublish
    \/ \E updates \in Partials : HandleDraftSettings(updates)
    \/ Unmount

\* The same with handleDraftSettings callable in every state of the mounted
\* page, the states before the load has finished included.
SpecSettingsHandler == InitSettings /\ [][NextSettingsHandler]_vars

\* The project page is opened on a project with a document in processing.
InitFrame ==
    /\ userId = "u1"
    /\ ChatPageIdle
    /\ ProjectPageState(TRUE, <<Doc(1, "processing")>>, DefaultSettings)
    /\ ProjectOpsIdle(<< >>)
    /\ DashboardIdle

NextFrame ==
    \/ LoadAndPublish
    \/ \E updates \in Partials : OnUpdateSettings(updates)
    \/ \E k \in Polls : Tick(k)
    \/ \E k \in Polls : PollRequest(k)
    \/ \E k \in Polls : PollSuccess(k)
    \/ \E k \in Polls : PollFailure(k)
    \/ ServerProgress(1)

\* The project page with its settings and its poller side by side: load,
\* draft edits, publishes, interval ticks and the server's progress.
SpecFrame == InitFrame /\ [][NextFrame]_vars

\* ------------------------------------------------------------ documents
Last(seq) == seq[Len(seq)]
Steps == <<"presign", "s3", "confirm">>

\* documents.filter((doc) => doc.id !== documentId), chats.filter likewise.
RemoveNothing(seq, id) == seq
RemoveFirst(seq, id) == IF seq = << >> THEN seq ELSE Tail(seq)
RemoveId(seq, id) == SelectSeq(seq, LAMBDA e : e.id # id)

AllEnded(files) == \A f \in DOMAIN files : files[f].ended

\* handleDocumentUpload up to `await getToken()`, for n selected files; without
\* a user it returns at once.
HandleDocumentUpload(n) ==
    /\ PageRendered
    /\ upload.pc = "idle"
    /\ upload' = IF userId = NoUser
                 THEN [IdleUpload EXCEPT !.pc = "returned"]
                 ELSE [IdleUpload EXCEPT !.pc = "token",
                                         !.files = [f \in 1..n |-> SelectedFile]]
    /\ UNCHANGED <<docDelete, chatCreate, chatDelete, isCreatingChat, srvChats, nextChat>>
    /\ UNCHANGED <<userId, chatVars, projectVars, dashboardVars, routeVars>>

\* getToken resolved: files.map runs every file's function up to its first
\* await, the request for a presigned URL.
UploadStartFiles ==
    /\ upload.pc = "token"
    /\ upload' = [upload EXCEPT !.pc = "running",
                                !.files = [f \in DOMAIN upload.files |-> StartedFile]]
    /\ UNCHANGED <<docDelete, chatCreate, chatDelete, isCreatingChat, srvChats, nextChat>>
    /\ UNCHANGED <<userId, chatVars, projectVars, dashboardVars, routeVars>>

\* getToken threw: the catch of handleDocumentUpload.
UploadTokenFailure ==
    /\ upload.pc = "token"
    /\ upload' = [upload EXCEPT !.pc = "done", !.toast = "error"]
    /\ UNCHANGED <<docDelete, chatCreate, chatDelete, isCreatingChat, srvChats, nextChat>>
    /\ UNCHANGED <<userId, chatVars, projectVars, dashboardVars, routeVars>>

\* `await Promise.allSettled` resumes in the task in which the last file's
\* promise settles: with u the call after that file's step, the documents of
\* the confirmed files are appended and a success toast is shown, if there
\* is any; while a file is still waiting the call stays as it is.
UploadSettled(u) ==
    IF ~AllEnded(u.files)
    THEN /\ upload' = u
         /\ UNCHANGED <<data, timers, poll>>
    ELSE IF u.newly # << >>
    THEN /\ upload' = [u EXCEPT !.pc = "done", !.toast = "success"]
         /\ IF mounted
            THEN SetDocuments([data EXCEPT !.documents = @ \o u.newly], poll)
            ELSE UNCHANGED <<data, timers, poll>>
    ELSE /\ upload' = [u EXCEPT !.pc = "done"]
         /\ UNCHANGED <<data, timers, poll>>

FileStepIgnoresFailure(f, ok) ==
    /\ upload.pc = "running"
    /\ f \in DOMAIN upload.files
    /\ ~upload.files[f].ended
    /\ LET file == upload.files[f]
           step == Last(file.sent)
           oks == IF ok THEN file.oks \cup {step} ELSE file.oks
           doc == Doc(nextDoc, "processing")
       IN IF step = "confirm"
          THEN /\ srvDocs' = Append(srvDocs, doc)
               /\ nextDoc' = nextDoc + 1
               /\ UploadSettled([upload EXCEPT
                        !.files[f] = [file EXCEPT !.oks = oks, !.ended = TRUE],
                        !.newly = Append(@, doc)])
          ELSE /\ UploadSettled([upload EXCEPT !.files[f] =
                    [file EXCEPT !.oks = oks,
                                 !.sent = Append(@, Steps[Len(file.sent) + 1])]])
               /\ UNCHANGED <<srvDocs, nextDoc>>
    /\ UNCHANGED <<mounted, loading, error, warned, projectLoad, urlAdd, publish,
                   srvSettings>>
    /\ UNCHANGED <<docDelete, chatCreate, chatDelete, isCreatingChat, srvChats, nextChat>>
    /\ UNCHANGED <<userId, chatVars, dashboardVars, routeVars>>

\* The response to the request a file's function is waiting for.  A failure
\* rejects the file's promise; a success issues the next request, and after
\* the confirmation, which creates the document on the server, pushes the
\* document to newlyUploadedDocuments.  When it was the last file waiting,
\* handleDocumentUpload goes on in the same task.
FileStep(f, ok) ==
    /\ upload.pc = "running"
    /\ f \in DOMAIN upload.files
    /\ ~upload.files[f].ended
    /\ LET file == upload.files[f]
           step == Last(file.sent)
           doc == Doc(nextDoc, "processing")
       IN IF ~ok
          THEN /\ UploadSettled([upload EXCEPT !.files[f].ended = TRUE])
               /\ UNCHANGED <<srvDocs, nextDoc>>
          ELSE IF step = "confirm"
          THEN /\ srvDocs' = Append(srvDocs, doc)
               /\ nextDoc' = nextDoc + 1
               /\ UploadSettled([upload EXCEPT
                        !.files[f] = [file EXCEPT !.oks = @ \cup {step}, !.ended = TRUE],
                        !.newly = Append(@, doc)])
          ELSE /\ UploadSettled([upload EXCEPT !.files[f] =
                    [file EXCEPT !.oks = @ \cup {step},
                                 !.sent = Append(@, Steps[Len(file.sent) + 1])]])
               /\ UNCHANGED <<srvDocs, nextDoc>>
    /\ UNCHANGED <<mounted, loading, error, warned, projectLoad, urlAdd, publish,
                   srvSettings>>
    /\ UNCHANGED <<docDelete, chatCreate, chatDelete, isCreatingChat, srvChats, nextChat>>
    /\ UNCHANGED <<userId, chatVars, dashboardVars, routeVars>>

NextDocDelete(d) ==
    docDelete[d].pc = "idle" /\ \A h \in Deletes : h < d => docDelete[h].pc # "idle"

HandleDocumentDeleteOptimistic(d, id) ==
    /\ PageRendered
    /\ NextDocDelete(d)
    /\ userId # NoUser
    /\ \E i \in DOMAIN data.documents : data.documents[i].id = id
    /\ docDelete' = [docDelete EXCEPT ![d] = [IdleDelete EXCEPT !.pc = "token", !.id = id]]
    /\ SetDocuments([data EXCEPT !.documents = RemoveId(@, id)], poll)
    /\ UNCHANGED <<mounted, loading, error, warned, projectLoad, urlAdd, publish,
                   srvDocs, srvSettings, nextDoc>>
    /\ UNCHANGED <<upload, chatCreate, chatDelete, isCreatingChat, srvChats, nextChat>>
    /\ UNCHANGED <<userId, chatVars, dashboardVars, routeVars>>

\* handleDocumentDelete(documentId) up to `await getToken()`, for a document
\* of the list shown; without a user it returns at once.
HandleDocumentDelete(d, id) ==
    /\ PageRendered
    /\ NextDocDelete(d)
    /\ \E i \in DOMAIN data.documents : data.documents[i].id = id
    /\ docDelete' = [docDelete EXCEPT ![d] =
            [IdleDelete EXCEPT !.pc = IF userId = NoUser THEN "returned" ELSE "token",
                               !.id = id]]
    /\ UNCHANGED <<upload, chatCreate, chatDelete, isCreatingChat, srvChats, nextChat>>
    /\ UNCHANGED <<userId, chatVars, projectVars, dashboardVars, routeVars>>

\* handleDocumentDelete: DELETE files/delete/{id}; the server removes the
\* document or answers with an error.
DocDeleteRequest(d) ==
    /\ docDelete[d].pc = "token"
    /\ \E ok \in BOOLEAN :
        IF ok
        THEN /\ srvDocs' = RemoveId(srvDocs, docDelete[d].id)
             /\ docDelete' = [docDelete EXCEPT ![d].pc = "inflight", ![d].out = "ok"]
        ELSE /\ docDelete' = [docDelete EXCEPT ![d].pc = "inflight", ![d].out = "fail"]
             /\ UNCHANGED srvDocs
    /\ UNCHANGED <<mounted, data, loading, error, warned, timers, poll, projectLoad,
                   urlAdd, publish, srvSettings, nextDoc>>
    /\ UNCHANGED <<upload, chatCreate, chatDelete, isCreatingChat, srvChats, nextChat>>
    /\ UNCHANGED <<userId, chatVars, dashboardVars, routeVars>>

\* handleDocumentDelete: the DELETE succeeded; the document is filtered out.
DocDeleteSuccess(d) ==
    /\ docDelete[d].pc = "inflight" /\ docDelete[d].out = "ok"
    /\ docDelete' = [docDelete EXCEPT ![d].pc = "done", ![d].toast = "success"]
    /\ IF mounted
       THEN SetDocuments([data EXCEPT !.documents = RemoveId(@, docDelete[d].id)], poll)
       ELSE UNCHANGED <<data, timers, poll>>
    /\ UNCHANGED <<mounted, loading, error, warned, projectLoad, urlAdd, publish,
                   srvDocs, srvSettings, nextDoc>>
    /\ UNCHANGED <<upload, chatCreate, chatDelete, isCreatingChat, srvChats, nextChat>>
    /\ UNCHANGED <<userId, chatVars, dashboardVars, routeVars>>

\* handleDocumentDelete's catch (getToken or the DELETE threw): a toast only.
DocDeleteFailure(d) ==
    /\ \/ docDelete[d].pc = "token"
       \/ docDelete[d].pc = "inflight" /\ docDelete[d].out = "fail"
    /\ docDelete' = [docDelete EXCEPT ![d].pc = "done", ![d].out = "fail",
                                      ![d].toast = "error"]
    /\ UNCHANGED <<upload, chatCreate, chatDelete, isCreatingChat, srvChats, nextChat>>
    /\ UNCHANGED <<userId, chatVars, projectVars, dashboardVars, routeVars>>

\* The project page is opened on a project with one processed document.
InitDocs ==
    /\ userId = "u1"
    /\ ChatPageIdle
    /\ ProjectPageState(TRUE, <<Doc(1, "completed")>>, DefaultSettings)
    /\ ProjectOpsIdle(<< >>)
    /\ DashboardIdle

NextDocs ==
    \/ \E l \in ProjectLoads : ProjectLoadRequest(l)
    \/ \E l \in ProjectLoads : ProjectLoadSuccess(l)
    \/ \E l \in ProjectLoads : ProjectLoadFailure(l)
    \/ \E n \in Files : HandleDocumentUpload(n)
    \/ UploadStartFiles
    \/ UploadTokenFailure
    \/ \E f \in Files, ok \in BOOLEAN : FileStep(f, ok)
    \/ \E d \in Deletes, id \in 1..(MaxFiles + 1) : HandleDocumentDelete(d, id)
    \/ \E d \in Deletes : DocDeleteRequest(d)
    \/ \E d \in Deletes : DocDeleteSuccess(d)
    \/ \E d \in Deletes : DocDeleteFailure(d)

\* The project page with its documents: load, an upload of some files and
\* deletions.
SpecDocs == InitDocs /\ [][NextDocs]_vars

\* ---------------------------------------------------------------- chats
Chat(n) == [id |-> n]

NextChatCreate(c) ==
    chatCreate[c].pc = "idle" /\ \A h \in Creates : h < c => chatCreate[h].pc # "idle"
NextChatDelete(d) ==
    chatDelete[d].pc = "idle" /\ \A h \in Deletes : h < d => chatDelete[h].pc # "idle"

AppendChat(chats, chat) == Append(chats, chat)

\* chats: [savedChat, ...prev.chats]
PrependChat(chats, chat) == <<chat>> \o chats

\* handleCreateNewChat up to `await getToken()`; without a user it returns
\* at once.
HandleCreateNewChat(c) ==
    /\ PageRendered
    /\ NextChatCreate(c)
    /\ IF userId = NoUser
       THEN /\ chatCreate' = [chatCreate EXCEPT ![c].pc = "returned"]
            /\ UNCHANGED isCreatingChat
       ELSE /\ chatCreate' = [chatCreate EXCEPT ![c].pc = "token"]
            /\ isCreatingChat' = TRUE
    /\ UNCHANGED <<upload, docDelete, chatDelete, srvChats, nextChat>>
    /\ UNCHANGED <<userId, chatVars, projectVars, dashboardVars, routeVars>>

\* handleCreateNewChat: POST /api/chat/create; the server creates the chat.
ChatCreateRequest(c) ==
    /\ chatCreate[c].pc = "token"
    /\ srvChats' = <<Chat(nextChat)>> \o srvChats
    /\ nextChat' = nextChat + 1
    /\ chatCreate' = [chatCreate EXCEPT ![c].pc = "inflight", ![c].chat = nextChat]
    /\ UNCHANGED <<upload, docDelete, chatDelete, isCreatingChat>>
    /\ UNCHANGED <<userId, chatVars, projectVars, dashboardVars, routeVars>>

\* handleCreateNewChat: the chat was created; router.push, setData,
\* toast.success and the finally block.
ChatCreateSuccess(c) ==
    /\ chatCreate[c].pc = "inflight"
    /\ chatCreate' = [chatCreate EXCEPT ![c].pc = "done", ![c].toast = "success"]
    /\ IF mounted
       THEN /\ data' = [data EXCEPT !.chats = PrependChat(@, Chat(chatCreate[c].chat))]
            /\ isCreatingChat' = FALSE
       ELSE UNCHANGED <<data, isCreatingChat>>
    /\ UNCHANGED <<mounted, loading, error, warned, timers, poll, projectLoad, urlAdd,
                   publish, srvDocs, srvSettings, nextDoc>>
    /\ UNCHANGED <<upload, docDelete, chatDelete, srvChats, nextChat>>
    /\ UNCHANGED <<userId, chatVars, dashboardVars, routeVars>>

\* handleCreateNewChat's catch and finally (getToken or the POST threw).
ChatCreateFailure(c) ==
    /\ chatCreate[c].pc = "token"
    /\ chatCreate' = [chatCreate EXCEPT ![c].pc = "done", ![c].toast = "error"]
    /\ IF mounted
       THEN /\ \E err \in Rejected("POST") :
                    error' = ErrorMessageOf(err, "Failed to create chat")
            /\ isCreatingChat' = FALSE
       ELSE UNCHANGED <<error, isCreatingChat>>
    /\ UNCHANGED <<mounted, data, loading, warned, timers, poll, projectLoad, urlAdd,
                   publish, srvDocs, srvSettings, nextDoc>>
    /\ UNCHANGED <<upload, docDelete, chatDelete, srvChats, nextChat>>
    /\ UNCHANGED <<userId, chatVars, dashboardVars, routeVars>>

\* handleDeleteChat(chatId) up to `await getToken()`, for a chat of the list
\* shown; without a user it returns at once.
HandleDeleteChat(d, id) ==
    /\ PageRendered
    /\ NextChatDelete(d)
    /\ \E i \in DOMAIN data.chats : data.chats[i].id = id
    /\ chatDelete' = [chatDelete EXCEPT ![d] =
            [IdleDelete EXCEPT !.pc = IF userId = NoUser THEN "returned" ELSE "token",
                               !.id = id]]
    /\ UNCHANGED <<upload, docDelete, chatCreate, isCreatingChat, srvChats, nextChat>>
    /\ UNCHANGED <<userId, chatVars, projectVars, dashboardVars, routeVars>>

\* handleDeleteChat: DELETE /api/chat/delete/{id}; the server removes the
\* chat or answers with an error.
ChatDeleteRequest(d) ==
    /\ chatDelete[d].pc = "token"
    /\ \E ok \in BOOLEAN :
        IF ok
        THEN /\ srvChats' = RemoveId(srvChats, chatDelete[d].id)
             /\ chatDelete' = [chatDelete EXCEPT ![d].pc = "inflight", ![d].out = "ok"]
        ELSE /\ chatDelete' = [chatDelete EXCEPT ![d].pc = "inflight", ![d].out = "fail"]
             /\ UNCHANGED srvChats
    /\ UNCHANGED <<upload, docDelete, chatCreate, isCreatingChat, nextChat>>
    /\ UNCHANGED <<userId, chatVars, projectVars, dashboardVars, routeVars>>

\* handleDeleteChat: the DELETE succeeded; the chat is filtered out.
ChatDeleteSuccess(d) ==
    /\ chatDelete[d].pc = "inflight" /\ chatDelete[d].out = "ok"
    /\ chatDelete' = [chatDelete EXCEPT ![d].pc = "done", ![d].toast = "success"]
    /\ IF mounted
       THEN data' = [data EXCEPT !.chats = RemoveId(@, chatDelete[d].id)]
       ELSE UNCHANGED data
    /\ UNCHANGED <<mounted, loading, error, warned, timers, poll, projectLoad, urlAdd,
                   publish, srvDocs, srvSettings, nextDoc>>
    /\ UNCHANGED <<upload, docDelete, chatCreate, isCreatingChat, srvChats, nextChat>>
    /\ UNCHANGED <<userId, chatVars, dashboardVars, routeVars>>

\* handleDeleteChat's catch (getToken or the DELETE threw): a toast only.
ChatDeleteFailure(d) ==
    /\ \/ chatDelete[d].pc = "token"
       \/ chatDelete[d].pc = "inflight" /\ chatDelete[d].out = "fail"
    /\ chatDelete' = [chatDelete EXCEPT ![d].pc = "done", ![d].out = "fail",
                                        ![d].toast = "error"]
    /\ UNCHANGED <<upload, docDelete, chatCreate, isCreatingChat, srvChats, nextChat>>
    /\ UNCHANGED <<userId, chatVars, projectVars, dashboardVars, routeVars>>

\* The project page is opened on a project with two chats.
InitChats ==
    /\ userId = "u1"
    /\ ChatPageIdle
    /\ ProjectPageState(TRUE, << >>, DefaultSettings)
    /\ ProjectOpsIdle(<<Chat(2), Chat(1)>>)
    /\ DashboardIdle

NextChats ==
    \/ \E l \in ProjectLoads : ProjectLoadRequest(l)
    \/ \E l \in ProjectLoads : ProjectLoadSuccess(l)
    \/ \E l \in ProjectLoads : ProjectLoadFailure(l)
    \/ \E c \in Creates : HandleCreateNewChat(c)
    \/ \E c \in Creates : ChatCreateRequest(c)
    \/ \E c \in Creates : ChatCreateSuccess(c)
    \/ \E c \in Creates : ChatCreateFailure(c)
    \/ \E d \in Deletes, id \in 1..(MaxCreates + 2) : HandleDeleteChat(d, id)
    \/ \E d \in Deletes : ChatDeleteRequest(d)
    \/ \E d \in Deletes : ChatDeleteSuccess(d)
    \/ \E d \in Deletes : ChatDeleteFailure(d)
    \/ Unmount

\* The project page with its chats: load, chat creations and deletions, and
\* leaving the page (which router.push does after a creation).
SpecChats == InitChats /\ [][NextChats]_vars

\* -------------------------------------------------------- projects page
Project(n) == [id |-> n]
ProjectNumbers == 1..(MaxItems + MaxCreates)

\* projectsData.map: `id: project.id || ""`; the other fields of a project
\* are not modelled.
ValidProjects(projectsData) ==
    [i \in DOMAIN projectsData |->
        [id |-> IF projectsData[i].id = 0 THEN "" ELSE projectsData[i].id]]

\* The projects page is the route shown, not a project's page.
DashboardShown == ~mounted
\* `if (isLoadingProjects) return <LoadingSpinner/>`: the grid and the modal
\* are rendered otherwise.
GridRendered == DashboardShown /\ ~isLoadingProjects

NextRemove(d) ==
    removeCall[d].pc = "idle" /\ \A h \in Deletes : h < d => removeCall[h].pc # "idle"
NextListLoad(n) ==
    listLoad[n].pc = "idle" /\ \A h \in ListLoads : h < n => listLoad[h].pc # "idle"
NextProjectCreate(c) ==
    createCall[c].pc = "idle" /\ \A h \in Creates : h < c => createCall[h].pc # "idle"

\* removeProject(_projectId) up to `await getToken()`, for a project of the
\* grid.
RemoveProject(d, id) ==
    /\ GridRendered
    /\ NextRemove(d)
    /\ \E i \in DOMAIN userProjectsList : userProjectsList[i].id = id
    /\ errorMessage' = NoError
    /\ removeCall' = [removeCall EXCEPT ![d] = [IdleDelete EXCEPT !.pc = "token", !.id = id]]
    /\ UNCHANGED <<userProjectsList, srvProjects, listVars>>
    /\ UNCHANGED <<userId, chatVars, projectVars, opsVars, routeVars>>

\* removeProject: DELETE /api/project/delete/{id}; the server removes the
\* project or answers with an error.
RemoveRequest(d) ==
    /\ removeCall[d].pc = "token"
    /\ \E ok \in BOOLEAN :
        IF ok
        THEN /\ srvProjects' = RemoveId(srvProjects, removeCall[d].id)
             /\ removeCall' = [removeCall EXCEPT ![d].pc = "inflight", ![d].out = "ok"]
        ELSE /\ removeCall' = [removeCall EXCEPT ![d].pc = "inflight", ![d].out = "fail"]
             /\ UNCHANGED srvProjects
    /\ UNCHANGED <<userProjectsList, errorMessage, listVars>>
    /\ UNCHANGED <<userId, chatVars, projectVars, opsVars, routeVars>>

\* removeProject: the DELETE succeeded; the project is filtered out.
RemoveSuccess(d) ==
    /\ removeCall[d].pc = "inflight" /\ removeCall[d].out = "ok"
    /\ removeCall' = [removeCall EXCEPT ![d].pc = "done", ![d].toast = "success"]
    /\ userProjectsList' = RemoveId(userProjectsList, removeCall[d].id)
    /\ UNCHANGED <<errorMessage, srvProjects, listVars>>
    /\ UNCHANGED <<userId, chatVars, projectVars, opsVars, routeVars>>

\* removeProject's catch (getToken or the DELETE threw).
RemoveFailure(d) ==
    /\ \/ removeCall[d].pc = "token"
       \/ removeCall[d].pc = "inflight" /\ removeCall[d].out = "fail"
    /\ removeCall' = [removeCall EXCEPT ![d].pc = "done", ![d].out = "fail",
                                        ![d].toast = "error"]
    /\ errorMessage' = "Failed to remove project. Please try again."
    /\ UNCHANGED <<userProjectsList, srvProjects, listVars>>
    /\ UNCHANGED <<userId, chatVars, projectVars, opsVars, routeVars>>

\* openCreateModal, from the grid.
OpenCreateModal ==
    /\ GridRendered
    /\ ~showCreateModal
    /\ showCreateModal' = TRUE
    /\ UNCHANGED <<userProjectsList, errorMessage, removeCall, srvProjects,
                   isLoadingProjects, isCreatingProject, listLoad, createCall,
                   nextProject>>
    /\ UNCHANGED <<userId, chatVars, projectVars, opsVars, routeVars>>

\* closeCreateModal, from the modal.
CloseCreateModal ==
    /\ GridRendered
    /\ showCreateModal
    /\ showCreateModal' = FALSE
    /\ UNCHANGED <<userProjectsList, errorMessage, removeCall, srvProjects,
                   isLoadingProjects, isCreatingProject, listLoad, createCall,
                   nextProject>>
    /\ UNCHANGED <<userId, chatVars, projectVars, opsVars, routeVars>>

\* createNewProject(name, description) up to `await getToken()`, from the
\* open modal.
CreateNewProject(c) ==
    /\ GridRendered
    /\ showCreateModal
    /\ NextProjectCreate(c)
    /\ errorMessage' = NoError
    /\ isCreatingProject' = TRUE
    /\ createCall' = [createCall EXCEPT ![c].pc = "token"]
    /\ UNCHANGED <<userProjectsList, removeCall, srvProjects, isLoadingProjects,
                   showCreateModal, listLoad, nextProject>>
    /\ UNCHANGED <<userId, chatVars, projectVars, opsVars, routeVars>>

\* createNewProject: POST /api/project/create; the server creates the
\* project or answers with an error.
CreateProjectRequest(c) ==
    /\ createCall[c].pc = "token"
    /\ \E ok \in BOOLEAN :
        IF ok
        THEN /\ srvProjects' = Append(srvProjects, Project(nextProject))
             /\ nextProject' = nextProject + 1
             /\ createCall' = [createCall EXCEPT ![c].pc = "inflight", ![c].out = "ok"]
        ELSE /\ createCall' = [createCall EXCEPT ![c].pc = "inflight", ![c].out = "fail"]
             /\ UNCHANGED <<srvProjects, nextProject>>
    /\ UNCHANGED <<userProjectsList, errorMessage, removeCall, isLoadingProjects,
                   isCreatingProject, showCreateModal, listLoad>>
    /\ UNCHANGED <<userId, chatVars, projectVars, opsVars, routeVars>>

\* createNewProject: the POST succeeded and loadUserProjects is called, which
\* runs up to its `await getToken()`.
CreateProjectLoads(c, n) ==
    /\ createCall[c].pc = "inflight" /\ createCall[c].out = "ok"
    /\ NextListLoad(n)
    /\ createCall' = [createCall EXCEPT ![c].pc = "loading"]
    /\ listLoad' = [listLoad EXCEPT ![n] = [IdleListLoad EXCEPT !.pc = "token", !.by = c]]
    /\ IF DashboardShown
       THEN isLoadingProjects' = TRUE /\ errorMessage' = NoError
       ELSE UNCHANGED <<isLoadingProjects, errorMessage>>
    /\ UNCHANGED <<userProjectsList, removeCall, srvProjects, isCreatingProject,
                   showCreateModal, nextProject>>
    /\ UNCHANGED <<userId, chatVars, projectVars, opsVars, routeVars>>

\* createNewProject's catch and finally (getToken or the POST threw).
CreateProjectFailure(c) ==
    /\ \/ createCall[c].pc = "token"
       \/ createCall[c].pc = "inflight" /\ createCall[c].out = "fail"
    /\ createCall' = [createCall EXCEPT ![c].pc = "done", ![c].out = "fail",
                                        ![c].toast = "error"]
    /\ errorMessage' = "Failed to create project. Please try again."
    /\ isCreatingProject' = FALSE
    /\ UNCHANGED <<userProjectsList, removeCall, srvProjects, isLoadingProjects,
                   showCreateModal, listLoad, nextProject>>
    /\ UNCHANGED <<userId, chatVars, projectVars, opsVars, routeVars>>

\* loadUserProjects: GET /api/project/list; the server answers with the
\* array of the user's projects, with something that is not an array, or
\* with an error.
ListLoadRequest(n) ==
    /\ listLoad[n].pc = "token"
    /\ \E resp \in {"array", "other", "fail"} :
        listLoad' = [listLoad EXCEPT
            ![n].pc = "inflight",
            ![n].out = resp,
            ![n].list = IF resp = "array" THEN ValidProjects(srvProjects) ELSE << >>]
    /\ UNCHANGED <<userProjectsList, errorMessage, removeCall, srvProjects,
                   isLoadingProjects, isCreatingProject, showCreateModal, createCall,
                   nextProject>>
    /\ UNCHANGED <<userId, chatVars, projectVars, opsVars, routeVars>>

\* The createNewProject call that awaited loadUserProjects goes on, whatever
\* the load did: setShowCreateModal(false), toast.success, and the finally.
CreateProjectResumes(c) ==
    IF c = 0
    THEN UNCHANGED <<createCall, showCreateModal, isCreatingProject>>
    ELSE /\ createCall' = [createCall EXCEPT ![c].pc = "done", ![c].toast = "success"]
         /\ showCreateModal' = FALSE
         /\ isCreatingProject' = FALSE

\* loadUserProjects: the response arrived; the list is replaced.
ListLoadSuccess(n) ==
    /\ listLoad[n].pc = "inflight" /\ listLoad[n].out # "fail"
    /\ listLoad' = [listLoad EXCEPT ![n].pc = "done"]
    /\ userProjectsList' = listLoad[n].list
    /\ isLoadingProjects' = FALSE
    /\ CreateProjectResumes(listLoad[n].by)
    /\ UNCHANGED <<errorMessage, removeCall, srvProjects, nextProject>>
    /\ UNCHANGED <<userId, chatVars, projectVars, opsVars, routeVars>>

\* loadUserProjects' catch and finally (getToken or the GET threw).
ListLoadFailure(n) ==
    /\ \/ listLoad[n].pc = "token"
       \/ listLoad[n].pc = "inflight" /\ listLoad[n].out = "fail"
    /\ listLoad' = [listLoad EXCEPT ![n].pc = "done", ![n].out = "fail"]
    /\ errorMessage' = "Failed to load projects. Please try again."
    /\ isLoadingProjects' = FALSE
    /\ CreateProjectResumes(listLoad[n].by)
    /\ UNCHANGED <<userProjectsList, removeCall, srvProjects, nextProject>>
    /\ UNCHANGED <<userId, chatVars, projectVars, opsVars, routeVars>>

\* The projects page after its mount: the effect has called loadUserProjects
\* for the signed-in user, the server holds the user's projects.
DashboardMounted(projects) ==
    /\ userProjectsList = << >>
    /\ errorMessage = NoError
    /\ removeCall = [d \in Deletes |-> IdleDelete]
    /\ srvProjects = projects
    /\ isLoadingProjects = TRUE
    /\ isCreatingProject = FALSE
    /\ showCreateModal = FALSE
    /\ listLoad = [n \in ListLoads |->
                    IF n = 1 THEN [IdleListLoad EXCEPT !.pc = "token"] ELSE IdleListLoad]
    /\ createCall = [c \in Creates |-> IdleProjectCreate]
    /\ nextProject = Len(projects) + 1

\* Either route: a project's page opened on a project with some documents
\* and chats, or the projects page just mounted.
InitDeletes ==
    /\ userId = "u1"
    /\ ChatPageIdle
    /\ ProjectOpsIdle([i \in Items |-> Chat(MaxItems + 1 - i)])
    /\ \/ /\ ProjectPageState(TRUE, [i \in Items |-> Doc(i, "completed")],
                              DefaultSettings)
          /\ DashboardIdle
       \/ /\ ProjectPageState(FALSE, [i \in Items |-> Doc(i, "completed")],
                              DefaultSettings)
          /\ DashboardMounted([i \in Items |-> Project(i)])

NextDeletes ==
    \/ \E l \in ProjectLoads : ProjectLoadRequest(l)
    \/ \E l \in ProjectLoads : ProjectLoadSuccess(l)
    \/ \E l \in ProjectLoads : ProjectLoadFailure(l)
    \/ \E d \in Deletes, id \in Items : HandleDocumentDelete(d, id)
    \/ \E d \in Deletes : DocDeleteRequest(d)
    \/ \E d \in Deletes : DocDeleteSuccess(d)
    \/ \E d \in Deletes : DocDeleteFailure(d)
    \/ \E d \in Deletes, id \in Items : HandleDeleteChat(d, id)
    \/ \E d \in Deletes : ChatDeleteRequest(d)
    \/ \E d \in Deletes : ChatDeleteSuccess(d)
    \/ \E d \in Deletes : ChatDeleteFailure(d)
    \/ \E n \in ListLoads : ListLoadRequest(n)
    \/ \E n \in ListLoads : ListLoadSuccess(n)
    \/ \E n \in ListLoads : ListLoadFailure(n)
    \/ OpenCreateModal
    \/ CloseCreateModal
    \/ \E c \in Creates : CreateNewProject(c)
    \/ \E c \in Creates : CreateProjectRequest(c)
    \/ \E c \in Creates, n \in ListLoads : CreateProjectLoads(c, n)
    \/ \E c \in Creates : CreateProjectFailure(c)
    \/ \E d \in Deletes, id \in ProjectNumbers : RemoveProject(d, id)
    \/ \E d \in Deletes : RemoveRequest(d)
    \/ \E d \in Deletes : RemoveSuccess(d)
    \/ \E d \in Deletes : RemoveFailure(d)

\* The delete operations of the two routes.
SpecDeletes == InitDeletes /\ [][NextDeletes]_vars

\* ------------------------------------------------- the page's identifiers
NextProjectLoad(l) ==
    projectLoad[l].pc = "idle" /\ \A h \in ProjectLoads : h < l => projectLoad[h].pc # "idle"

\* useEffect(..., [userId, projectId, getToken]): loadProjectData up to
\* `await getToken()`, for the user and the project of the new render.
LoadEffect(uid, p) ==
    IF uid = NoUser
    THEN UNCHANGED <<projectLoad, loading, error>>
    ELSE \E l \in ProjectLoads :
            /\ NextProjectLoad(l)
            /\ projectLoad' = [projectLoad EXCEPT ![l] = StartedProjectLoad(p)]
            /\ loading' = TRUE
            /\ error' = NoError

\* useAuth().userId changes while the project page is mounted (the user signs
\* out or in): the load effect runs again.
ProjectUserChanges(u) ==
    /\ mounted
    /\ u # userId
    /\ userId' = u
    /\ LoadEffect(u, projectId)
    /\ UNCHANGED <<mounted, data, warned, timers, poll, urlAdd, publish, srvDocs,
                   srvSettings, nextDoc>>
    /\ UNCHANGED <<chatVars, opsVars, dashboardVars, routeVars>>

\* useParams().id changes while the project page is mounted: the load effect
\* and the polling effect run again.
ChangeProjectId(p) ==
    /\ mounted
    /\ p # projectId
    /\ projectId' = p
    /\ LoadEffect(userId, p)
    /\ timers' = PollEffect(timers, data.documents)
    /\ poll' = CancelAll(poll)
    /\ UNCHANGED <<mounted, data, warned, urlAdd, publish, srvDocs, srvSettings, nextDoc>>
    /\ UNCHANGED <<userId, chatVars, opsVars, dashboardVars>>

\* A project page opened by a signed-in user on a project with one document
\* and one chat, whose settings the server may not hold.
InitGuards ==
    /\ userId = "u1"
    /\ ChatPageIdle
    /\ \E settings \in {NoSettings, DefaultSettings} :
        ProjectPageState(TRUE, <<Doc(1, "completed")>>, settings)
    /\ ProjectOpsIdle(<<Chat(1)>>)
    /\ DashboardIdle

NextGuards ==
    \/ \E l \in ProjectLoads : ProjectLoadRequest(l)
    \/ \E l \in ProjectLoads : ProjectLoadSuccess(l)
    \/ \E l \in ProjectLoads : ProjectLoadFailure(l)
    \/ ProjectUserChanges(NoUser)
    \/ HandleCreateNewChat(1)
    \/ \E c \in Creates : ChatCreateRequest(c)
    \/ \E c \in Creates : ChatCreateSuccess(c)
    \/ \E c \in Creates : ChatCreateFailure(c)
    \/ HandleDeleteChat(1, 1)
    \/ \E d \in Deletes : ChatDeleteRequest(d)
    \/ \E d \in Deletes : ChatDeleteSuccess(d)
    \/ \E d \in Deletes : ChatDeleteFailure(d)
    \/ HandleDocumentUpload(1)
    \/ UploadStartFiles
    \/ UploadTokenFailure
    \/ \E f \in Files, ok \in BOOLEAN : FileStep(f, ok)
    \/ HandleDocumentDelete(1, 1)
    \/ \E d \in Deletes : DocDeleteRequest(d)
    \/ \E d \in Deletes : DocDeleteSuccess(d)
    \/ \E d \in Deletes : DocDeleteFailure(d)
    \/ HandleUrlAdd(1)
    \/ \E j \in Urls : UrlAddRequest(j)
    \/ \E j \in Urls : UrlAddSuccess(j)
    \/ \E j \in Urls : UrlAddFailure(j)
    \/ HandlePublishSettings(1)
    \/ \E q \in Publishes : PublishRequest(q)
    \/ \E q \in Publishes : PublishSuccess(q)
    \/ \E q \in Publishes : PublishFailure(q)

\* The project page with the operations that need a signed-in user: each is
\* called once, for the document and the chat the project has or for one
\* file, at any moment the page is rendered, runs to its end, and the user
\* may sign out at any point.
SpecGuards == InitGuards /\ [][NextGuards]_vars

ProjectIds == {"p1", "p2"}

\* A project page opened by a signed-in user on a project with a document, a
\* chat and settings.
InitLoads ==
    /\ userId = "u1"
    /\ ChatPageIdle
    /\ ProjectPageState(TRUE, <<Doc(1, "completed")>>, DefaultSettings)
    /\ ProjectOpsIdle(<<Chat(1)>>)
    /\ DashboardIdle

NextLoads ==
    \/ \E l \in ProjectLoads : ProjectLoadRequest(l)
    \/ \E l \in ProjectLoads : ProjectLoadSuccess(l)
    \/ \E l \in ProjectLoads : ProjectLoadFailure(l)
    \/ \E u \in {NoUser, "u1"} : ProjectUserChanges(u)
    \/ \E p \in ProjectIds : ChangeProjectId(p)
    \/ Unmount

InitSwitch ==
    /\ userId = "u1"
    /\ ChatPageIdle
    /\ ProjectPageState(TRUE, <<Doc(1, "processing")>>, DefaultSettings)
    /\ ProjectOpsIdle(<<Chat(1)>>)
    /\ DashboardIdle

NextSwitch ==
    \/ \E l \in ProjectLoads : ProjectLoadRequest(l)
    \/ \E l \in ProjectLoads : ProjectLoadSuccess(l)
    \/ \E l \in ProjectLoads : ProjectLoadFailure(l)
    \/ \E p \in ProjectIds : ChangeProjectId(p)
    \/ \E k \in Polls : Tick(k)
    \/ \E k \in Polls : PollRequest(k)
    \/ \E k \in Polls : PollSuccess(k)
    \/ \E k \in Polls : PollFailure(k)
    \/ Unmount

\* The project page while the route's project identifier changes: the loads
\* and the poller, each with the identifier of its closure.
SpecSwitch == InitSwitch /\ [][NextSwitch]_vars

\* The project page and its loads: the load of the mount and the loads a
\* change of the user or of the project identifier starts.
SpecLoads == InitLoads /\ [][NextLoads]_vars

NextRace ==
    \/ NextPolling
    \/ \E d \in Deletes, id \in 1..(MaxUrls + 1) : HandleDocumentDelete(d, id)
    \/ \E d \in Deletes : DocDeleteRequest(d)
    \/ \E d \in Deletes : DocDeleteSuccess(d)
    \/ \E d \in Deletes : DocDeleteFailure(d)

\* The project page with its poller and the local changes of the documents:
\* URL additions and deletions.
SpecRace == InitPolling /\ [][NextRace]_vars

\* ------------------------------------------------------------- fairness
\* A callback that has returned is gone; its number is used again.
ForgetPoll(k) ==
    /\ poll[k].pc \in {"done", "failed"}
    /\ poll' = [poll EXCEPT ![k] = IdlePoll]
    /\ UNCHANGED <<mounted, data, loading, error, warned, timers, projectLoad, urlAdd,
                   publish, srvDocs, srvSettings, nextDoc>>
    /\ UNCHANGED <<userId, chatVars, opsVars, dashboardVars, routeVars>>

NextPollingFair == NextPolling \/ \E k \in Polls : ForgetPoll(k)

\* The interval fires as long as it is set, every request is answered or
\* fails, the server finishes every document, and of the refreshes attempted
\* again and again once the server has finished, one gets its token and one
\* gets its response.
Fairness ==
    /\ \A l \in ProjectLoads : WF_vars(ProjectLoadRequest(l))
    /\ \A l \in ProjectLoads : WF_vars(ProjectLoadSuccess(l) \/ ProjectLoadFailure(l))
    /\ WF_vars(\E k \in Polls : Tick(k))
    /\ \A k \in Polls : WF_vars(PollRequest(k) \/ PollFailure(k))
    /\ SF_vars(\E k \in Polls : PollRequest(k) /\ ~HasProcessingDocuments(srvDocs))
    /\ \A k \in Polls : WF_vars(PollSuccess(k) \/ PollFailure(k))
    /\ SF_vars(\E k \in Polls : PollSuccess(k) /\ ~HasProcessingDocuments(poll[k].docs))
    /\ \A k \in Polls : WF_vars(ForgetPoll(k))
    /\ \A i \in 1..(MaxUrls + 1) : WF_vars(ServerProgress(i))
    /\ \A j \in Urls : WF_vars(UrlAddRequest(j) \/ UrlAddFailure(j))
    /\ \A j \in Urls : WF_vars(UrlAddSuccess(j))

\* The poller under fair scheduling of the timer, the requests and the
\* server.
SpecPollFair == InitPolling /\ [][NextPollingFair]_vars /\ Fairness

(***************************************************************************)
(* The project page: vocabulary of the claims.                             *)
(***************************************************************************)
Documents == data.documents

\* A terminal status is completed or failed; a non-terminal one is one of the
\* other labels of the processing state machine.
Terminal(doc) == doc.processing_status \in {"completed", "failed"}
NonTerminal(doc) == doc.processing_status \in {"queued", "processing"}
AllTerminal(docs) == \A i \in DOMAIN docs : Terminal(docs[i])
SomeNonTerminal(docs) == \E i \in DOMAIN docs : NonTerminal(docs[i])

\* The steps of a tick callback, as seen in the variables.
TickStep(k) == poll[k].pc = "idle" /\ poll'[k].pc = "token"
RefreshRequestStep(k) == poll[k].pc = "token" /\ poll'[k].pc = "inflight"
RefreshResponseStep(k) == poll[k].pc = "inflight" /\ poll'[k].pc = "done"
RefreshFailureStep(k) == poll[k].pc \in {"token", "inflight"} /\ poll'[k].pc = "failed"

\* The poller's states: Polling is an interval set and not cleared.
Polling == timers > 0
Idle == timers = 0

\* C12: while the view is on screen and every stored document is terminal
\* (or there is none), no tick callback issues the refresh-documents request,
\* the callbacks that were waiting for the auth token included.
C12_NoRefreshWhenAllTerminal ==
    [][\A k \in Polls :
        RefreshRequestStep(k) /\ mounted => ~AllTerminal(Documents)]_vars

\* C13: a refresh response whose documents are all terminal puts the poller
\* in Idle in the same step, and while the stored documents, once refreshed,
\* are all terminal and the poller is Idle, no refresh request is issued.
C13_IdleAfterTerminalRefresh ==
    /\ [][\A k \in Polls :
            /\ RefreshResponseStep(k) /\ mounted
            /\ Documents' = poll[k].docs /\ AllTerminal(poll[k].docs)
            => Idle']_vars
    /\ [][\A k \in Polls :
            /\ RefreshRequestStep(k) /\ mounted
            /\ Idle /\ Documents # << >> /\ AllTerminal(Documents)
            => FALSE]_vars

\* C14: a refresh response that was in flight when its loop was cancelled
\* and arrives while the poller is Idle or the view is gone is not applied:
\* the stored documents stay as they are.
C14_LateResponseDiscarded ==
    [][\A k \in Polls :
        /\ RefreshResponseStep(k)
        /\ poll[k].cancelled = "inflight"
        /\ Idle \/ ~mounted
        => Documents' = Documents]_vars

\* C15: while the view is on screen, as soon as the stored documents hold a
\* non-terminal document the poller is Polling with one interval set; a
\* change of the documents that brings a non-terminal one sets it in the
\* same step.
C15_PollingWhenNonTerminal ==
    /\ [](mounted /\ SomeNonTerminal(Documents) => Polling /\ timers = 1)
    /\ [][mounted' /\ Documents' # Documents /\ SomeNonTerminal(Documents')
            => Polling']_vars

\* A URL record was added to a collection that was all terminal: the poller
\* left Idle.
C15_Witness ==
    /\ mounted /\ Polling
    /\ Len(Documents) = 2
    /\ Documents[1].id = 2 /\ NonTerminal(Documents[1])
    /\ Terminal(Documents[2])

\* C16: a refresh that fails leaves the stored documents and the interval
\* as they are, so a poller that was Polling stays Polling and its next tick
\* can fire; and there is never more than one interval set.
C16_FailedRefreshKeepsPolling ==
    /\ [][\A k \in Polls :
            RefreshFailureStep(k) =>
                /\ Documents' = Documents
                /\ timers' = timers
                /\ Polling => Polling']_vars
    /\ [](timers <= 1)

\* The first refresh failed and the next tick has issued its request.
C16_Witness ==
    /\ mounted /\ Polling
    /\ poll[1].pc = "failed"
    /\ poll[2].pc = "inflight" /\ poll[2].cancelled = "no"
    /\ SomeNonTerminal(Documents)

\* C17: once the view is torn down no interval is set and no tick callback
\* starts, whatever the poller was doing at teardown.
C17_NoTimerAfterTeardown ==
    /\ [](~mounted => timers = 0)
    /\ [][~mounted => \A k \in Polls : ~TickStep(k)]_vars

\* The view was torn down while Polling, with a callback still suspended.
C17_Witness ==
    /\ ~mounted
    /\ SomeNonTerminal(Documents)
    /\ \E k \in Polls : poll[k].pc = "token" /\ poll[k].cancelled = "token"
    /\ \E k \in Polls : poll[k].pc = "idle"

\* ---------------------------------------------------------------- settings
Draft == data.settings
Published == srvSettings

\* The steps of a publish call, as seen in the variables.
PublishStartStep(q) == publish[q].pc = "idle" /\ publish'[q].pc = "token"
PublishSuccessStep(q) ==
    publish[q].pc = "inflight" /\ publish'[q] = SettledPublish("ok")
PublishFailureStep(q) ==
    publish[q].pc \in {"token", "inflight"} /\ publish'[q] = SettledPublish("fail")
ProjectLoadedStep ==
    \E l \in ProjectLoads :
        /\ projectLoad[l].pc = "inflight" /\ projectLoad'[l].pc = "done"
        /\ data' = projectLoad[l].data

\* C18: while the store holds no settings, the only step that puts a
\* settings object there is the project load; an updateDraft leaves the
\* settings absent and the rest of the store as it is, whatever the partial.
C18_NoDraftBeforeLoad ==
    [][Draft = NoSettings =>
        \/ Draft' = NoSettings /\ data' = data
        \/ ProjectLoadedStep]_vars

\* updateDraft was called while the load had not finished: the diagnostic was
\* written and the store still holds no settings.
C18_Witness ==
    /\ warned
    /\ projectLoad[1].pc \in {"token", "inflight"}
    /\ Draft = NoSettings

\* C19 as stated: after a failed publish the draft equals the draft the call
\* started with, and the published copy is unchanged.
C19_AsStated ==
    [][\A q \in Publishes :
        PublishFailureStep(q) =>
            /\ Draft' = publish[q].sent
            /\ Published' = Published]_vars

\* C19: the failure of a publish changes neither the draft nor the published
\* copy, and no step of a publish call changes the draft; a call that fails
\* has not changed the published copy either.
C19_FailureKeepsDraft ==
    /\ [][\A q \in Publishes :
            PublishFailureStep(q) => Draft' = Draft /\ Published' = Published]_vars
    /\ [][\A q \in Publishes :
            publish'[q] # publish[q] =>
                /\ Draft' = Draft
                /\ publish'[q].out # "ok" => Published' = Published]_vars

\* A publish failed after the draft had been edited: the edited draft is
\* still in the store and the server keeps its own copy.
C19_Witness ==
    /\ \E q \in Publishes : publish[q] = SettledPublish("fail")
    /\ error # NoError
    /\ Draft \notin {NoSettings, DefaultSettings}
    /\ Published = DefaultSettings

\* C20: when a publish succeeds, the draft in the store is the settings
\* object that was sent, so that draft and published copy are the same.
C20_DraftEqualsSent ==
    [][\A q \in Publishes :
        PublishSuccessStep(q) => Draft' = publish[q].sent]_vars

\* C21: after a publish has failed the page still shows the settings, so
\* that the draft can be edited and published again on the same view.
C21_FailureIsRecoverable ==
    [][\A q \in Publishes :
        PublishFailureStep(q) /\ mounted => PageRendered' /\ Draft' # NoSettings]_vars

PublishRequestStep(q) == publish[q].pc = "token" /\ publish'[q].pc = "inflight"

\* C22: a step that edits the draft starts no call and reaches no server
\* state; the server's settings change only when a publish call issues its
\* request, to the settings that call sends; and a publish call starts only
\* from the rendered page, as a step that does nothing else.
C22_OnlyPublishSendsSettings ==
    /\ [][Draft' # Draft /\ ~ProjectLoadedStep =>
            UNCHANGED <<publish, poll, projectLoad, urlAdd, srvSettings, srvDocs>>]_vars
    /\ [][Published' # Published =>
            \E q \in Publishes : PublishRequestStep(q) /\ Published' = publish[q].sent]_vars
    /\ [][\A q \in Publishes :
            PublishStartStep(q) =>
                /\ PageRendered /\ publish'[q].sent = Draft
                /\ UNCHANGED <<data, poll, projectLoad, srvSettings>>]_vars

\* The draft was edited and a poll refresh was applied, no publish was asked
\* for: the server still has the settings it had.
C22_Witness ==
    /\ Draft \notin {NoSettings, DefaultSettings}
    /\ Published = DefaultSettings
    /\ \A q \in Publishes : publish[q].pc = "idle"
    /\ \E k \in Polls : poll[k].pc = "done"

\* --------------------------------------------------------------- documents
UploadSettledStep == upload.pc \in {"token", "running"} /\ upload'.pc = "done"
DocDeleteSettledStep(d) == docDelete[d].pc # "done" /\ docDelete'[d].pc = "done"

\* C23: when a mutating action of the documents settles, a success or a
\* failure notification has been emitted for it.
C23_EveryActionNotifies ==
    /\ [][UploadSettledStep => upload'.toast \in {"success", "error"}]_vars
    /\ [][\A d \in Deletes :
            DocDeleteSettledStep(d) => docDelete'[d].toast \in {"success", "error"}]_vars

\* ------------------------------------------------------------------- chats
ChatList == data.chats
Ids(seq) == {seq[i].id : i \in DOMAIN seq}
WithoutId(seq, id) == SelectSeq(seq, LAMBDA e : e.id # id)

ChatCreatedStep(c) == chatCreate[c].pc = "inflight" /\ chatCreate'[c].pc = "done"
ChatCreateFailedStep(c) == chatCreate[c].pc = "token" /\ chatCreate'[c].pc = "done"
ChatDeletedStep(d) ==
    chatDelete[d].pc = "inflight" /\ chatDelete'[d].pc = "done" /\ chatDelete[d].out = "ok"
ChatDeleteFailedStep(d) ==
    chatDelete[d].pc # "done" /\ chatDelete'[d].pc = "done" /\ chatDelete'[d].out = "fail"

\* C24: on the page, a created chat is put in front of the chat sequence and
\* the others keep their places; a chat whose delete succeeded leaves the
\* sequence, the others keep their order; a failed create or delete leaves
\* the sequence as it is.
C24_ChatSequence ==
    /\ [][\A c \in Creates :
            ChatCreatedStep(c) /\ mounted =>
                ChatList' = <<Chat(chatCreate[c].chat)>> \o ChatList]_vars
    /\ [][\A d \in Deletes :
            ChatDeletedStep(d) /\ mounted =>
                /\ ChatList' = WithoutId(ChatList, chatDelete[d].id)
                /\ chatDelete[d].id \notin Ids(ChatList')]_vars
    /\ [][(\E c \in Creates : ChatCreateFailedStep(c))
            \/ (\E d \in Deletes : ChatDeleteFailedStep(d))
            => ChatList' = ChatList]_vars

\* A chat was created and the older of the two others was deleted.
C24_Witness ==
    /\ mounted
    /\ ChatList = <<Chat(3), Chat(2)>>
    /\ \E c \in Creates : chatCreate[c].toast = "success"
    /\ \E d \in Deletes : chatDelete[d].toast = "success"

\* C25: a handleSendMessage call issues its create-message request at most
\* once: the request is issued in the step from awaiting the token to
\* awaiting the response, and from there the call only settles.
C25_NoRetry ==
    /\ [](\A p \in Calls : send[p].posts <= 1)
    /\ [][\A p \in Calls :
            /\ send'[p].posts > send[p].posts =>
                send[p].pc = "token" /\ send[p].posts = 0 /\ send'[p].pc = "inflight"
            /\ send[p].pc = "inflight" /\ send'[p] # send[p] => send'[p].pc = "done"]_vars

\* A first call has failed and is settled; a second call, a fresh attempt,
\* has issued its one request, which failed too.
C25_Witness ==
    /\ send[1] = SettledSend("fail")
    /\ send[2].pc = "inflight" /\ send[2].out = "fail" /\ send[2].posts = 1
    /\ server[chatId] = << >>

\* C26: under fair scheduling the poller of a mounted view reaches Idle with
\* a store without non-terminal documents; once it is Idle with all stored
\* documents terminal no refresh request is issued any more; and while the
\* view is mounted with a non-terminal document stored, a refresh request is
\* eventually issued.
C26_ConvergesAndStops ==
    /\ (mounted /\ SomeNonTerminal(Documents))
            ~> (~mounted \/ (Idle /\ ~SomeNonTerminal(Documents)))
    /\ [][mounted /\ Idle /\ Documents # << >> /\ AllTerminal(Documents)
            => \A k \in Polls : ~RefreshRequestStep(k)]_vars
    /\ (mounted /\ SomeNonTerminal(Documents))
            ~> (~mounted \/ \E k \in Polls : poll[k].pc = "inflight")

\* C27: the step that applies a poll refresh response sets the documents to
\* the ones received and leaves the project, the chats and the draft
\* settings of the store as they were.
C27_RefreshReplacesOnlyDocuments ==
    [][\A k \in Polls :
        RefreshResponseStep(k) /\ mounted =>
            /\ Documents' = poll[k].docs
            /\ data'.project = data.project
            /\ data'.chats = data.chats
            /\ Draft' = Draft]_vars

\* The draft was edited in both fields and a refresh that found the document
\* processed was applied: the edits are in the store, the server has not
\* seen them.
C27_Witness ==
    /\ mounted
    /\ Draft = [k \in SettingKeys |-> 1]
    /\ Published = DefaultSettings
    /\ Documents = <<Doc(1, "completed")>>
    /\ \E k \in Polls : poll[k].pc = "done"

\* What updateDraft(partial) is to yield from a draft: partial's value on
\* partial's keys, the draft's value on the others.
IsMergeOf(new, old, partial) ==
    /\ DOMAIN new = DOMAIN old
    /\ \A k \in DOMAIN new :
        new[k] = IF k \in DOMAIN partial THEN partial[k] ELSE old[k]

\* C28: with settings loaded, the draft after updateDraft(partial) has
\* partial's values on partial's keys and the previous values elsewhere,
\* applying the same partial again changes nothing, and an edit of the draft
\* leaves project, chats and documents alone.
C28_DraftMerge ==
    /\ [](Draft # NoSettings =>
            \A partial \in Partials :
                /\ IsMergeOf(Merge(Draft, partial), Draft, partial)
                /\ Merge(Merge(Draft, partial), partial) = Merge(Draft, partial))
    /\ [][Draft # NoSettings /\ Draft' # Draft =>
            /\ \E partial \in Partials : IsMergeOf(Draft', Draft, partial)
            /\ data'.project = data.project
            /\ data'.chats = data.chats
            /\ Documents' = Documents]_vars

\* One field of the loaded settings was edited, the other kept its value.
C28_Witness ==
    /\ PageRendered
    /\ Draft = [k \in SettingKeys |-> IF k = "k1" THEN 1 ELSE 0]
    /\ Published = DefaultSettings

\* ----------------------------------------------------------------- deletes
DeletedStep(call, d) ==
    call[d].pc = "inflight" /\ call'[d].pc = "done" /\ call[d].out = "ok"
DeleteFailedStep(call, d) ==
    call[d].pc # "done" /\ call'[d].pc = "done" /\ call'[d].out = "fail"

ListLoadedStep ==
    \E n \in ListLoads :
        /\ listLoad[n].pc = "inflight" /\ listLoad'[n].pc = "done"
        /\ userProjectsList' = listLoad[n].list

\* A loaded collection changes only in the step that ends a delete call
\* whose request succeeded, when the server no longer has the entity, and
\* then loses the entries with the call's identifier and nothing else.
NotOptimistic(list, srv, call) ==
    list' # list =>
        \E d \in Deletes :
            /\ DeletedStep(call, d)
            /\ call[d].id \notin Ids(srv)
            /\ list' = WithoutId(list, call[d].id)

\* C29: deleting a chat, a document or a project is not optimistic: the
\* collection changes only after the server has confirmed, by exactly the
\* entity asked for, and a failed delete leaves it unchanged.
C29_DeletesNotOptimistic ==
    /\ [][~ProjectLoadedStep =>
            /\ NotOptimistic(Documents, srvDocs, docDelete)
            /\ NotOptimistic(ChatList, srvChats, chatDelete)]_vars
    /\ [][~ListLoadedStep => NotOptimistic(userProjectsList, srvProjects, removeCall)]_vars
    /\ [][\A d \in Deletes :
            /\ DeleteFailedStep(docDelete, d) => Documents' = Documents
            /\ DeleteFailedStep(chatDelete, d) => ChatList' = ChatList
            /\ DeleteFailedStep(removeCall, d) =>
                    userProjectsList' = userProjectsList]_vars

\* On a project's page the second document and the second chat were deleted:
\* the first and the last of each list stay, in their order.
C29_Witness ==
    /\ Len(Documents) = MaxItems - 1 /\ Ids(Documents) = Items \ {2}
    /\ Documents[1].id = 1
    /\ Len(ChatList) = MaxItems - 1 /\ Ids(ChatList) = Items \ {2}
    /\ ChatList[1].id = MaxItems
    /\ \E d \in Deletes : docDelete[d].toast = "success"
    /\ \E d \in Deletes : chatDelete[d].toast = "success"

\* ------------------------------------------------------------------ upload
IsPrefix(s, t) == Len(s) <= Len(t) /\ \A i \in DOMAIN s : s[i] = t[i]
Confirmed(files) == {f \in DOMAIN files : "confirm" \in files[f].oks}
FileFailed(file) == file.ended /\ "confirm" \notin file.oks

\* C30: every file's requests are issued in the order presign, direct upload,
\* confirm, the first once the token is there and each other one only after
\* the one before it succeeded; when the upload settles the store gains one
\* document per confirmed file and nothing else;
\* the failure of a file leaves the other files' pipelines as they are.
C30_UploadPipeline ==
    /\ [](\A f \in DOMAIN upload.files :
            LET file == upload.files[f]
            IN /\ IsPrefix(file.sent, Steps)
               /\ upload.pc = "token" => file.sent = << >>
               /\ upload.pc = "running" => file.sent # << >>
               /\ \A i \in DOMAIN file.sent : i > 1 => Steps[i - 1] \in file.oks
               /\ \A i \in DOMAIN file.sent : Steps[i] \in file.oks => i <= Len(file.sent))
    /\ [](Len(upload.newly) = Cardinality(Confirmed(upload.files)))
    /\ [][UploadSettledStep /\ mounted =>
            /\ Documents' = Documents \o upload'.newly
            /\ Len(Documents') - Len(Documents) = Cardinality(Confirmed(upload'.files))]_vars
    /\ [][\A f \in DOMAIN upload.files :
            ~FileFailed(upload.files[f]) /\ FileFailed(upload'.files[f]) =>
                /\ upload'.pc = "running" \/ AllEnded(upload'.files)
                /\ upload'.newly = upload.newly
                /\ \A g \in DOMAIN upload.files \ {f} :
                        upload'.files[g] = upload.files[g]]_vars

\* An upload of two files has settled: one file failed at the direct upload,
\* so that its confirmation was never sent, the other was confirmed and its
\* document follows the document the project had.
C30_Witness ==
    /\ upload.pc = "done"
    /\ \E f, g \in DOMAIN upload.files :
        /\ upload.files[f].sent = <<"presign", "s3">>
        /\ upload.files[f].oks = {"presign"}
        /\ upload.files[f].ended
        /\ upload.files[g].oks = {"presign", "s3", "confirm"}
    /\ Len(upload.newly) = 1
    /\ Len(Documents) = 2
    /\ Documents[1].id = 1
    /\ Documents[2] = upload.newly[1]

\* ------------------------------------------------------------------ guards
CallStarts(call, c) == call[c].pc = "idle" /\ call'[c].pc # "idle"
Server == <<srvDocs, srvChats, srvSettings, nextDoc, nextChat>>
Store == <<data, loading, error, isCreatingChat, timers>>

\* The call that starts in this step returns at once: its record is over, the
\* store and the server are as before.
ReturnsAtOnce(pc) == pc = "returned" /\ Store' = Store /\ Server' = Server

\* C31: with no user id, create chat, delete chat, upload, delete document,
\* add URL and publish return at once, and so does publish when the store
\* holds no settings: the store is unchanged, the call is over and no request
\* of it ever reaches the server.
C31_NoUserNoRequest ==
    /\ [][userId = NoUser =>
            /\ \A c \in Creates :
                CallStarts(chatCreate, c) => ReturnsAtOnce(chatCreate'[c].pc)
            /\ \A d \in Deletes :
                /\ CallStarts(chatDelete, d) => ReturnsAtOnce(chatDelete'[d].pc)
                /\ CallStarts(docDelete, d) => ReturnsAtOnce(docDelete'[d].pc)
            /\ (upload.pc = "idle" /\ upload'.pc # "idle") => ReturnsAtOnce(upload'.pc)
            /\ \A j \in Urls : CallStarts(urlAdd, j) => ReturnsAtOnce(urlAdd'[j].pc)]_vars
    /\ [][userId = NoUser \/ data.settings = NoSettings =>
            \A q \in Publishes :
                CallStarts(publish, q) => ReturnsAtOnce(publish'[q].pc)]_vars
    /\ [][/\ \A c \in Creates : chatCreate[c].pc = "returned" => chatCreate'[c] = chatCreate[c]
          /\ \A d \in Deletes : chatDelete[d].pc = "returned" => chatDelete'[d] = chatDelete[d]
          /\ \A d \in Deletes : docDelete[d].pc = "returned" => docDelete'[d] = docDelete[d]
          /\ upload.pc = "returned" => upload' = upload
          /\ \A j \in Urls : urlAdd[j].pc = "returned" => urlAdd'[j] = urlAdd[j]
          /\ \A q \in Publishes : publish[q].pc = "returned" => publish'[q] = publish[q]]_vars

\* The user signed out of a loaded project page and each of the six
\* operations was then called once: all returned, the store still holds the
\* loaded bundle and the server what it held.
C31_Witness ==
    /\ userId = NoUser
    /\ chatCreate[1].pc = "returned" /\ chatDelete[1].pc = "returned"
    /\ upload.pc = "returned" /\ docDelete[1].pc = "returned"
    /\ urlAdd[1].pc = "returned" /\ publish[1].pc = "returned"
    /\ data = ServerBundle("p1")
    /\ Len(Documents) = 1 /\ Len(ChatList) = 1
    /\ ~loading

\* ------------------------------------------------------------------- loads
LoadSettles(l) == projectLoad[l].pc \in {"token", "inflight"} /\ projectLoad'[l].pc = "done"
AllFetched(l) == projectLoad[l].pc = "inflight" /\ projectLoad[l].failed = {}

\* C32: a load that settles on the mounted page replaces the four parts of
\* the store at once by the bundle fetched when all four requests succeeded,
\* and otherwise changes none of them and sets the error to the message of
\* what was thrown; either way loading is false afterwards, and nothing but
\* a fully fetched load changes the store.
C32_LoadAllOrNothing ==
    /\ [][\A l \in ProjectLoads :
            LoadSettles(l) /\ mounted =>
                /\ loading' = FALSE
                /\ IF AllFetched(l)
                   THEN data' = projectLoad[l].data /\ error' = error
                   ELSE /\ data' = data
                        /\ error' # NoError
                        /\ \E err \in Rejected("GET") :
                              error' = ErrorMessageOf(err, "Failed to fetch data")]_vars
    /\ [][data' # data =>
            \E l \in ProjectLoads :
                LoadSettles(l) /\ AllFetched(l) /\ data' = projectLoad[l].data]_vars

\* The load of the mount stored the bundle of the first project; the load
\* started for the second project failed: the store still holds the whole
\* first bundle, the error is set and loading is false.
C32_Witness ==
    /\ mounted /\ projectId = "p2"
    /\ projectLoad[1].out = "ok" /\ projectLoad[2].out = "fail"
    /\ projectLoad[2].id = "p2"
    /\ data = ServerBundle("p1")
    /\ Len(Documents) = 1 /\ Len(ChatList) = 1 /\ data.settings = DefaultSettings
    /\ error # NoError
    /\ ~loading

\* ------------------------------------------------------- refresh and changes
\* C33: a refresh response applied to the store keeps every document that
\* the store and the server both hold (an addition the server confirmed and
\* the store reflects is not dropped) and brings back no document that
\* neither holds (a confirmed deletion the store reflects is not undone).
C33_RefreshKeepsLocalChanges ==
    [][\A k \in Polls :
          RefreshResponseStep(k) /\ mounted =>
              /\ Ids(Documents) \cap Ids(srvDocs) \subseteq Ids(Documents')
              /\ Ids(Documents') \subseteq Ids(Documents) \cup Ids(srvDocs)]_vars

\* -------------------------------------------------------------- chat switch
\* C34: every message of the displayed sequence belongs to the displayed
\* chat.
C34_MessagesBelongToChat ==
    \A i \in DOMAIN Msgs : Msgs[i].chat_id = currentChatData.id

\* ------------------------------------------------------- refreshes in flight
RefreshesInFlight == {k \in Polls : poll[k].pc = "inflight"}

\* C35: at most one refresh request is in flight at any time.
C35_OneRefreshInFlight == Cardinality(RefreshesInFlight) <= 1

\* -------------------------------------------------------- sending indicator
\* C36: isMessageSending is true exactly when a sendMessage call is in
\* flight.
C36_IndicatorTracksSends ==
    isMessageSending <=> \E p \in Calls : InFlight(p)

\* --------------------------------------------------------- overlapping loads
AllLoadsSettled == \A l \in ProjectLoads : projectLoad[l].pc \in {"idle", "done"}
\* The load the last run of the effect started.
IsLatestLoad(l) ==
    /\ projectLoad[l].pc # "idle"
    /\ \A h \in ProjectLoads : h > l => projectLoad[h].pc = "idle"

\* C37: when every load has settled and the load started last, which is the
\* load of the current project identifier, succeeded, the store holds the
\* bundle of the current project identifier.
C37_LatestLoadWins ==
    (/\ mounted
     /\ AllLoadsSettled
     /\ \E l \in ProjectLoads :
            /\ IsLatestLoad(l)
            /\ projectLoad[l].id = projectId
            /\ projectLoad[l].out = "ok")
        => data.project = projectId

\* ------------------------------------------------------------ pending status
\* A document is pending when it has a status and the status is not terminal.
Pending(doc) == doc.processing_status # "" /\ ~Terminal(doc)
SomePending(docs) == \E i \in DOMAIN docs : Pending(docs[i])
NoStatus(doc) == doc.processing_status = ""

\* C38: while the view is on screen the poller is Polling exactly when a
\* stored document is pending; a stored collection of documents without a
\* status and of terminal ones leaves it Idle, and no step that stores such
\* a collection sets an interval.
C38_PendingNeedsStatus ==
    /\ [](mounted => (Polling <=> SomePending(Documents)))
    /\ [](mounted /\ (\A i \in DOMAIN Documents :
                        NoStatus(Documents[i]) \/ Terminal(Documents[i])) => Idle)
    /\ [][mounted' /\ ~SomePending(Documents') => timers' = 0]_vars

\* The store holds a document without a status and a document that reached
\* a terminal status while the poller was refreshing: the poller is Idle.
C38_Witness ==
    /\ mounted /\ Idle
    /\ Len(Documents) = 2
    /\ Terminal(Documents[1])
    /\ NoStatus(Documents[2])
    /\ \E k \in Polls : poll[k].pc = "done"
====
